---- MODULE Spec2Model ----
(***************************************************************************)
(* A model of meridian/analysis/analyzer.py: the counterfactual outcome    *)
(* engine of the Analyzer class (expected_outcome, incremental_outcome and *)
(* the metrics built on them).                                             *)
(*                                                                         *)
(* Conventions                                                             *)
(*  - A floating-point number is modelled by an exact rational <<n, d>>    *)
(*    in lowest terms with d > 0.                                          *)
(*  - A tensor is a nested sequence, outermost axis first.  The chain axis *)
(*    of a draw collection is left out (one chain): no operation of the    *)
(*    analyzer slices or reorders it.                                      *)
(*  - An Optional[...] value is a sequence of length 0 (None) or 1.        *)
(*  - An operation that can raise returns a record whose field err is      *)
(*    "none" or the kind of the error raised.                              *)
(***************************************************************************)
EXTENDS Integers, Sequences, FiniteSets, TLC

VARIABLES mmm, call, res

vars == <<mmm, call, res>>

(***************************************************************************)
(* Bounds of the model.                                                    *)
(***************************************************************************)
MaxDraws == 3
MaxBatch == 4

(***************************************************************************)
(* Exact rational arithmetic.                                              *)
(***************************************************************************)
Abs(x) == IF x < 0 THEN -x ELSE x

RECURSIVE GCD(_, _)
GCD(a, b) == IF b = 0 THEN a ELSE GCD(b, a % b)

\* n/d with the common divisor g taken out and the sign in the numerator.
Quot(n, d, g) ==
  IF d < 0 THEN <<(-n) \div g, (-d) \div g>> ELSE <<n \div g, d \div g>>

Rat(n, d) == Quot(n, d, GCD(Abs(n), Abs(d)))

R(n) == <<n, 1>>
Zero == R(0)
One == R(1)

\* Sums and products are reduced before they are formed, so that the
\* integers stay small.
AddOver(a, b, g) ==
  Rat(a[1] * (b[2] \div g) + b[1] * (a[2] \div g), (a[2] \div g) * b[2])

RAdd(a, b) == AddOver(a, b, GCD(a[2], b[2]))

RNeg(a) == <<-a[1], a[2]>>
RSub(a, b) == RAdd(a, RNeg(b))

MulOver(a, b, g1, g2) ==
  Rat((a[1] \div g1) * (b[1] \div g2), (a[2] \div g2) * (b[2] \div g1))

RMul(a, b) == MulOver(a, b, GCD(Abs(a[1]), b[2]), GCD(Abs(b[1]), a[2]))

RDiv(a, b) == RMul(a, IF b[1] < 0 THEN <<-b[2], -b[1]>> ELSE <<b[2], b[1]>>)
RLt(a, b) == a[1] * b[2] < b[1] * a[2]
RLeq(a, b) == a[1] * b[2] <= b[1] * a[2]
RMin(a, b) == IF RLeq(a, b) THEN a ELSE b
RMax(a, b) == IF RLeq(a, b) THEN b ELSE a

RECURSIVE RPow(_, _)
RPow(a, k) == IF k = 0 THEN One ELSE RMul(a, RPow(a, k - 1))

\* tf.math.divide_no_nan: 0 where the denominator is 0.
DivideNoNan(a, b) == IF b = Zero THEN Zero ELSE RDiv(a, b)

RECURSIVE RSum(_)
RSum(s) == IF s = <<>> THEN Zero ELSE RAdd(Head(s), RSum(Tail(s)))

RECURSIVE RMinSeq(_)
RMinSeq(s) == IF Len(s) = 1 THEN s[1] ELSE RMin(s[1], RMinSeq(Tail(s)))

RECURSIVE RMaxSeq(_)
RMaxSeq(s) == IF Len(s) = 1 THEN s[1] ELSE RMax(s[1], RMaxSeq(Tail(s)))

Min2(a, b) == IF a <= b THEN a ELSE b

\* The sequence f as an explicit tuple: it is built once, where a function
\* constructor alone is evaluated anew at every application.
AsSeq(f) == f \o <<>>

(***************************************************************************)
(* Optional values and small sequence helpers.                             *)
(***************************************************************************)
None == <<>>
Some(x) == <<x>>
IsNone(o) == o = <<>>
Get(o) == o[1]

RECURSIVE Flatten(_)
Flatten(ss) == IF ss = <<>> THEN <<>> ELSE Head(ss) \o Flatten(Tail(ss))

RECURSIVE SelectByMask(_, _)
\* tf.boolean_mask along one axis: the entries whose mask entry is TRUE.
SelectByMask(s, mask) ==
  IF s = <<>> THEN <<>>
  ELSE (IF Head(mask) THEN <<Head(s)>> ELSE <<>>)
         \o SelectByMask(Tail(s), Tail(mask))

Range(s) == {s[i] : i \in 1..Len(s)}

\* The last k entries of s (python s[-k:]); the whole of s when k >= Len(s).
LastK(s, k) ==
  IF k >= Len(s) THEN s ELSE SubSeq(s, Len(s) - k + 1, Len(s))

(***************************************************************************)
(* Shapes of (geo, time, channel) and (geo, time) tensors.                 *)
(***************************************************************************)
NGeo(t) == Len(t)
NTime(t) == Len(t[1])
NChan(t) == Len(t[1][1])
Shape3(t) == <<NGeo(t), NTime(t), NChan(t)>>
Shape2(t) == <<NGeo(t), NTime(t)>>

(***************************************************************************)
(* The fitted model (the Meridian object the Analyzer wraps).  The model   *)
(* object itself lives outside analyzer.py; the fields below are the ones  *)
(* analyzer.py reads.  Every channel family has one channel when present.  *)
(***************************************************************************)
Families == {"media", "rf", "organic_media", "organic_rf", "non_media"}

GeoNames == <<"g1", "g2", "g3", "g4">>
TimeNames == <<"t1", "t2", "t3", "t4", "t5">>
LagTimeNames == <<"l1", "l2", "l3">>

\* Data of the model: small integers that depend on every index and contain
\* zeros; `k` separates the families.
DataValue(k, g, t, c) == R((k + g + 2 * t + c) % 3)

Tensor3(k, ng, nt, nc) ==
  AsSeq([g \in 1..ng |-> AsSeq([t \in 1..nt |-> AsSeq([c \in 1..nc |-> DataValue(k, g, t, c)])])])

\* Frequencies are at least 1.
FreqTensor3(k, ng, nt, nc) ==
  AsSeq([g \in 1..ng |-> AsSeq([t \in 1..nt |-> AsSeq([c \in 1..nc |-> R(1 + ((k + g + t) % 2))])])])

\* Non-media treatments: strictly positive values (a price, a temperature).
NonMediaTensor3(ng, nt, nc) ==
  AsSeq([g \in 1..ng |-> AsSeq([t \in 1..nt |-> AsSeq([c \in 1..nc |-> R(g + 2 * t)])])])

RevenuePerKpiTensor(ng, nt) == AsSeq([g \in 1..ng |-> AsSeq([t \in 1..nt |-> R(g + t)])])

OnesTensor2(ng, nt) == AsSeq([g \in 1..ng |-> AsSeq([t \in 1..nt |-> One])])

\* One parameter draw; `i` is the index of the draw in its group and `o`
\* separates prior draws from posterior ones.  Decay rates lie in [0, 1),
\* half-saturation points are positive, slopes are positive integers.
Draw(i, o, ng, nt) ==
  [alpha_m   |-> <<IF i % 2 = 1 THEN Rat(1, 2) ELSE Zero>>,
   ec_m      |-> <<One>>,
   slope_m   |-> <<IF i % 2 = 1 THEN 1 ELSE 2>>,
   beta_gm   |-> AsSeq([g \in 1..ng |-> <<R(g + i + o)>>]),
   alpha_rf  |-> <<Rat(1, 2)>>,
   ec_rf     |-> <<One>>,
   slope_rf  |-> <<1>>,
   beta_grf  |-> AsSeq([g \in 1..ng |-> <<R(2 * i + g)>>]),
   alpha_om  |-> <<Zero>>,
   ec_om     |-> <<R(2)>>,
   slope_om  |-> <<1>>,
   beta_gom  |-> AsSeq([g \in 1..ng |-> <<R(i + o + 1)>>]),
   alpha_orf |-> <<Zero>>,
   ec_orf    |-> <<One>>,
   slope_orf |-> <<1>>,
   beta_gorf |-> AsSeq([g \in 1..ng |-> <<R(3 * i)>>]),
   mu_t      |-> AsSeq([t \in 1..nt |-> R(t - i)]),
   tau_g     |-> AsSeq([g \in 1..ng |-> R(g + i + o)]),
   gamma_gc  |-> AsSeq([g \in 1..ng |-> <<R(i)>>]),
   gamma_gn  |-> AsSeq([g \in 1..ng |-> <<R(i + g + o)>>])]

Draws(n, o, ng, nt) == AsSeq([i \in 1..n |-> Draw(i, o, ng, nt)])

\* cfg: [fams, n_geos, n_times, n_lag, kpi_type, has_rpk, groups, n_draws]
MakeModel(cfg) ==
  LET ng  == cfg.n_geos
      nt  == cfg.n_times
      nmt == cfg.n_times + cfg.n_lag
      has(f) == f \in cfg.fams
      opt(f, x) == IF has(f) THEN Some(x) ELSE None
  IN [n_geos |-> ng,
      n_times |-> nt,
      n_media_times |-> nmt,
      geo |-> SubSeq(GeoNames, 1, ng),
      time |-> SubSeq(TimeNames, 1, nt),
      media_time |-> SubSeq(LagTimeNames, 1, cfg.n_lag) \o SubSeq(TimeNames, 1, nt),
      is_national |-> ng = 1,
      kpi_type |-> cfg.kpi_type,
      n_media_channels |-> IF has("media") THEN 1 ELSE 0,
      n_rf_channels |-> IF has("rf") THEN 1 ELSE 0,
      n_organic_media_channels |-> IF has("organic_media") THEN 1 ELSE 0,
      n_organic_rf_channels |-> IF has("organic_rf") THEN 1 ELSE 0,
      n_non_media_channels |-> IF has("non_media") THEN 1 ELSE 0,
      media |-> opt("media", Tensor3(0, ng, nmt, 1)),
      media_spend |-> opt("media", Tensor3(1, ng, nt, 1)),
      reach |-> opt("rf", Tensor3(2, ng, nmt, 1)),
      frequency |-> opt("rf", FreqTensor3(0, ng, nmt, 1)),
      rf_spend |-> opt("rf", Tensor3(0, ng, nt, 1)),
      organic_media |-> opt("organic_media", Tensor3(1, ng, nmt, 1)),
      organic_reach |-> opt("organic_rf", Tensor3(0, ng, nmt, 1)),
      organic_frequency |-> opt("organic_rf", FreqTensor3(1, ng, nmt, 1)),
      non_media_treatments |-> opt("non_media", NonMediaTensor3(ng, nt, 1)),
      controls |-> Some(Tensor3(2, ng, nt, 1)),
      revenue_per_kpi |->
        IF cfg.kpi_type = "revenue" THEN Some(OnesTensor2(ng, nt))
        ELSE IF cfg.has_rpk THEN Some(RevenuePerKpiTensor(ng, nt)) ELSE None,
      max_lag |-> 1,
      media_scale |-> R(2),
      reach_scale |-> R(3),
      organic_media_scale |-> R(2),
      organic_reach_scale |-> R(1),
      non_media_center |-> R(1),
      non_media_scale |-> R(2),
      controls_center |-> R(1),
      controls_scale |-> R(2),
      kpi_center |-> R(5),
      kpi_scale |-> R(3),
      n_draws |-> cfg.n_draws,
      groups |-> cfg.groups,
      prior |-> IF "prior" \in cfg.groups
                THEN Draws(cfg.n_draws, 1, ng, nt) ELSE <<>>,
      posterior |-> IF "posterior" \in cfg.groups
                    THEN Draws(cfg.n_draws, 0, ng, nt) ELSE <<>>]

(***************************************************************************)
(* DataTensors: every field is optional.                                   *)
(***************************************************************************)
EmptyData ==
  [media |-> None, media_spend |-> None, reach |-> None, frequency |-> None,
   rf_spend |-> None, organic_media |-> None, organic_reach |-> None,
   organic_frequency |-> None, non_media_treatments |-> None,
   controls |-> None, revenue_per_kpi |-> None]

(***************************************************************************)
(* Elementwise tensor arithmetic.                                          *)
(***************************************************************************)
Map3(t, F(_)) ==
  AsSeq([g \in 1..Len(t) |-> AsSeq([u \in 1..Len(t[g]) |->
     AsSeq([c \in 1..Len(t[g][u]) |-> F(t[g][u][c])])])])

Map2(t, F(_)) == AsSeq([g \in 1..Len(t) |-> AsSeq([u \in 1..Len(t[g]) |-> F(t[g][u])])])

\* a - b for two tensors of one shape (geo, time, channel).
Sub3(a, b) ==
  AsSeq([g \in 1..Len(a) |-> AsSeq([u \in 1..Len(a[g]) |->
     AsSeq([c \in 1..Len(a[g][u]) |-> RSub(a[g][u][c], b[g][u][c])])])])

(***************************************************************************)
(* The model's scaling transforms.  They are fitted outside analyzer.py:   *)
(* media-like tensors are divided by a positive scale, controls, non-media *)
(* treatments and the KPI are centered and scaled.                         *)
(***************************************************************************)
ScaleForward(x, scale) == Map3(x, LAMBDA v : RDiv(v, scale))

CenterScaleForward(x, center, scale) ==
  Map3(x, LAMBDA v : RDiv(RSub(v, center), scale))

MediaForward(m, x) == ScaleForward(x, m.media_scale)
ReachForward(m, x) == ScaleForward(x, m.reach_scale)
OrganicMediaForward(m, x) == ScaleForward(x, m.organic_media_scale)
OrganicReachForward(m, x) == ScaleForward(x, m.organic_reach_scale)
NonMediaForward(m, x) ==
  CenterScaleForward(x, m.non_media_center, m.non_media_scale)
ControlsForward(m, x) ==
  CenterScaleForward(x, m.controls_center, m.controls_scale)

\* kpi_transformer.inverse on one value: un-scale, then un-center.
KpiInverse(m, y) == RAdd(RMul(y, m.kpi_scale), m.kpi_center)

\* The scaled tensors the model stores beside the raw ones.
ScaledOf(o, F(_)) == IF IsNone(o) THEN None ELSE Some(F(Get(o)))
MediaScaled(m) == ScaledOf(m.media, LAMBDA x : MediaForward(m, x))
ReachScaled(m) == ScaledOf(m.reach, LAMBDA x : ReachForward(m, x))
OrganicMediaScaled(m) ==
  ScaledOf(m.organic_media, LAMBDA x : OrganicMediaForward(m, x))
OrganicReachScaled(m) ==
  ScaledOf(m.organic_reach, LAMBDA x : OrganicReachForward(m, x))
NonMediaScaled(m) ==
  ScaledOf(m.non_media_treatments, LAMBDA x : NonMediaForward(m, x))
ControlsScaled(m) == ScaledOf(m.controls, LAMBDA x : ControlsForward(m, x))

\* _transformed_new_or_scaled: `has` tells whether the transformer exists.
TransformedNewOrScaled(new_variable, has, F(_), scaled_variable) ==
  IF IsNone(new_variable) \/ ~has THEN scaled_variable
  ELSE Some(F(Get(new_variable)))

\* new_data if it is given, else the model's tensor.
NewOr(new, old) == IF ~IsNone(new) THEN new ELSE old

\* Analyzer._fill_missing_data_tensors for the required names `names`.
FillMissingDataTensors(m, new_data, names) ==
  [f \in DOMAIN EmptyData |->
     IF f \in names THEN NewOr(new_data[f], m[f]) ELSE None]

\* The paid-media, controls and revenue_per_kpi part of
\* Analyzer._get_scaled_data_tensors with new_data given.
PaidScaledDataTensors(m, new_data) ==
  [EmptyData EXCEPT
     !.media = TransformedNewOrScaled(new_data.media, ~IsNone(m.media),
                 LAMBDA x : MediaForward(m, x), MediaScaled(m)),
     !.reach = TransformedNewOrScaled(new_data.reach, ~IsNone(m.reach),
                 LAMBDA x : ReachForward(m, x), ReachScaled(m)),
     !.frequency = NewOr(new_data.frequency, m.frequency),
     !.controls = TransformedNewOrScaled(new_data.controls, TRUE,
                 LAMBDA x : ControlsForward(m, x), ControlsScaled(m)),
     !.revenue_per_kpi = NewOr(new_data.revenue_per_kpi, m.revenue_per_kpi)]

\* Its non-paid part, added to `paid` when include_non_paid_channels.
NonPaidScaledDataTensors(m, new_data, include_non_paid_channels, paid) ==
  IF include_non_paid_channels
  THEN [paid EXCEPT
          !.organic_media =
             TransformedNewOrScaled(new_data.organic_media,
               ~IsNone(m.organic_media),
               LAMBDA x : OrganicMediaForward(m, x), OrganicMediaScaled(m)),
          !.organic_reach =
             TransformedNewOrScaled(new_data.organic_reach,
               ~IsNone(m.organic_reach),
               LAMBDA x : OrganicReachForward(m, x), OrganicReachScaled(m)),
          !.organic_frequency =
             NewOr(new_data.organic_frequency, m.organic_frequency),
          !.non_media_treatments =
             TransformedNewOrScaled(new_data.non_media_treatments,
               ~IsNone(m.non_media_treatments),
               LAMBDA x : NonMediaForward(m, x), NonMediaScaled(m))]
  ELSE paid

\* Analyzer._get_scaled_data_tensors with new_data given.
GetScaledDataTensors(m, new_data, include_non_paid_channels) ==
  NonPaidScaledDataTensors(m, new_data, include_non_paid_channels,
                           PaidScaledDataTensors(m, new_data))

\* Analyzer._get_scaled_data_tensors with new_data=None.
GetScaledDataTensorsOriginal(m) ==
  [EmptyData EXCEPT
     !.media = MediaScaled(m), !.reach = ReachScaled(m),
     !.frequency = m.frequency,
     !.organic_media = OrganicMediaScaled(m),
     !.organic_reach = OrganicReachScaled(m),
     !.organic_frequency = m.organic_frequency,
     !.non_media_treatments = NonMediaScaled(m),
     !.controls = ControlsScaled(m),
     !.revenue_per_kpi = m.revenue_per_kpi]

\* Analyzer._get_causal_param_names
GetCausalParamNames(m, include_non_paid_channels) ==
  (IF ~IsNone(m.media) THEN {"ec_m", "slope_m", "alpha_m", "beta_gm"} ELSE {})
  \cup (IF ~IsNone(m.reach)
        THEN {"ec_rf", "slope_rf", "alpha_rf", "beta_grf"} ELSE {})
  \cup (IF include_non_paid_channels
        THEN (IF ~IsNone(m.organic_media)
              THEN {"ec_om", "slope_om", "alpha_om", "beta_gom"} ELSE {})
             \cup (IF ~IsNone(m.organic_reach)
                   THEN {"ec_orf", "slope_orf", "alpha_orf", "beta_gorf"}
                   ELSE {})
             \cup (IF ~IsNone(m.non_media_treatments)
                   THEN {"gamma_gn"} ELSE {})
        ELSE {})

(***************************************************************************)
(* Adstock and Hill.  The transformers are fitted-model code outside       *)
(* analyzer.py; they are modelled from their documented behaviour and from *)
(* model/adstock_hill_test.py.                                             *)
(***************************************************************************)
\* Adstock of one time series: the series is zero-padded at its start (or
\* truncated there), each output step is the weighted sum of a window of
\* min(max_lag + 1, T) steps ending at it with weights alpha^lag, normalised
\* by the sum of the weights.  The output is the last n_times_output steps.
PadSeries(s, required) ==
  IF required > Len(s)
  THEN AsSeq([i \in 1..(required - Len(s)) |-> Zero]) \o s
  ELSE SubSeq(s, Len(s) - required + 1, Len(s))

\* The weights alpha^lag for the lags 0 .. window_size - 1.
AdstockWeights(alpha, window_size) ==
  AsSeq([l \in 1..window_size |-> RPow(alpha, l - 1)])

AdstockWindows(padded, weights, n_times_output) ==
  AsSeq([t \in 1..n_times_output |->
     RDiv(RSum(AsSeq([w \in 1..Len(weights) |->
                  RMul(weights[Len(weights) - w + 1], padded[t + w - 1])])),
          RSum(weights))])

AdstockSeries(s, alpha, max_lag, n_times_output) ==
  AdstockWindows(
    PadSeries(s, n_times_output + Min2(max_lag + 1, Len(s)) - 1),
    AdstockWeights(alpha, Min2(max_lag + 1, Len(s))), n_times_output)

\* AdstockTransformer.forward on a (geo, time, channel) tensor; alpha has one
\* entry per channel.
\* The adstocked series of every geo and channel, indexed [geo][channel].
AdstockByChannel(media, alpha, max_lag, n_times_output) ==
  AsSeq([g \in 1..NGeo(media) |-> AsSeq([c \in 1..NChan(media) |->
     AdstockSeries(AsSeq([u \in 1..NTime(media) |-> media[g][u][c]]),
                   alpha[c], max_lag, n_times_output)])])

\* [geo][channel][time] as [geo][time][channel].
TimeMajor(x, n_times) ==
  AsSeq([g \in 1..Len(x) |-> AsSeq([t \in 1..n_times |->
     AsSeq([c \in 1..Len(x[g]) |-> x[g][c][t]])])])

Adstock(media, alpha, max_lag, n_times_output) ==
  TimeMajor(AdstockByChannel(media, alpha, max_lag, n_times_output),
            n_times_output)

\* HillTransformer.forward: x^slope / (x^slope + ec^slope).
HillRatio(x_slope, ec_slope) == RDiv(x_slope, RAdd(x_slope, ec_slope))

HillValue(x, ec, slope) == HillRatio(RPow(x, slope), RPow(ec, slope))

Hill(media, ec, slope) ==
  AsSeq([g \in 1..NGeo(media) |-> AsSeq([t \in 1..NTime(media) |->
     AsSeq([c \in 1..NChan(media) |-> HillValue(media[g][t][c], ec[c], slope[c])])])])

\* The number of output steps of Meridian.adstock_hill_media/_rf: the
\* argument when given, else n_times.
NTimesOutput(m, n_times_output) ==
  IF IsNone(n_times_output) THEN m.n_times ELSE Get(n_times_output)

\* The transformers raise when n_times_output is left out for a tensor
\* whose time axis is not the model's n_media_times, and when more output
\* steps are asked for than the tensor has.
AdstockHillRaises(m, tensor, n_times_output) ==
  \/ IsNone(n_times_output) /\ NTime(tensor) # m.n_media_times
  \/ NTimesOutput(m, n_times_output) > NTime(tensor)

\* Meridian.adstock_hill_media: adstock first, then hill.
AdstockHillMedia(m, media, alpha, ec, slope, n_times_output) ==
  Hill(Adstock(media, alpha, m.max_lag, NTimesOutput(m, n_times_output)),
       ec, slope)

\* Meridian.adstock_hill_rf: hill of the frequency, times reach, then
\* adstock.
\* reach * hill(frequency), elementwise.
ReachTimesHill(reach, hf) ==
  AsSeq([g \in 1..NGeo(reach) |-> AsSeq([t \in 1..NTime(reach) |->
     AsSeq([c \in 1..NChan(reach) |-> RMul(reach[g][t][c], hf[g][t][c])])])])

AdstockHillRF(m, reach, frequency, alpha, ec, slope, n_times_output) ==
  Adstock(ReachTimesHill(reach, Hill(frequency, ec, slope)), alpha, m.max_lag,
          NTimesOutput(m, n_times_output))

\* Whether _get_transformed_media_and_beta raises on these tensors.
TransformedMediaRaises(m, data_tensors, n_times_output) ==
  \/ \E f \in {"media", "reach", "organic_media", "organic_reach"} :
       /\ ~IsNone(data_tensors[f])
       /\ AdstockHillRaises(m, Get(data_tensors[f]), n_times_output)
  \/ /\ ~IsNone(data_tensors.reach)
     /\ Shape3(Get(data_tensors.reach)) # Shape3(Get(data_tensors.frequency))
  \/ /\ ~IsNone(data_tensors.organic_reach)
     /\ Shape3(Get(data_tensors.organic_reach))
          # Shape3(Get(data_tensors.organic_frequency))

\* Concatenation of (geo, time, channel) tensors along the channel axis.
ConcatChannels(ts, ng, nt) ==
  AsSeq([g \in 1..ng |-> AsSeq([t \in 1..nt |->
     Flatten(AsSeq([k \in 1..Len(ts) |-> ts[k][g][t]]))])])

\* Analyzer._get_transformed_media_and_beta for one parameter draw.
\* The transformed tensors of the channel families that are present, in the
\* order media, reach, organic media, organic reach.
TransformedMedias(m, data_tensors, dist, n_times_output) ==
  (IF ~IsNone(data_tensors.media)
   THEN <<AdstockHillMedia(m, Get(data_tensors.media), dist.alpha_m,
                           dist.ec_m, dist.slope_m, n_times_output)>>
   ELSE <<>>)
  \o (IF ~IsNone(data_tensors.reach)
      THEN <<AdstockHillRF(m, Get(data_tensors.reach),
                           Get(data_tensors.frequency), dist.alpha_rf,
                           dist.ec_rf, dist.slope_rf, n_times_output)>>
      ELSE <<>>)
  \o (IF ~IsNone(data_tensors.organic_media)
      THEN <<AdstockHillMedia(m, Get(data_tensors.organic_media),
                              dist.alpha_om, dist.ec_om, dist.slope_om,
                              n_times_output)>>
      ELSE <<>>)
  \o (IF ~IsNone(data_tensors.organic_reach)
      THEN <<AdstockHillRF(m, Get(data_tensors.organic_reach),
                           Get(data_tensors.organic_frequency),
                           dist.alpha_orf, dist.ec_orf, dist.slope_orf,
                           n_times_output)>>
      ELSE <<>>)

\* Their coefficients, in the same order.
Betas(data_tensors, dist) ==
  (IF ~IsNone(data_tensors.media) THEN <<dist.beta_gm>> ELSE <<>>)
  \o (IF ~IsNone(data_tensors.reach) THEN <<dist.beta_grf>> ELSE <<>>)
  \o (IF ~IsNone(data_tensors.organic_media) THEN <<dist.beta_gom>> ELSE <<>>)
  \o (IF ~IsNone(data_tensors.organic_reach) THEN <<dist.beta_gorf>> ELSE <<>>)

\* Concatenation of (geo, channel) coefficients along the channel axis.
ConcatBetas(betas, ng) ==
  AsSeq([g \in 1..ng |->
     Flatten(AsSeq([k \in 1..Len(betas) |-> betas[k][g]]))])

GetTransformedMediaAndBeta(m, data_tensors, dist, n_times_output) ==
  [media |-> ConcatChannels(
               TransformedMedias(m, data_tensors, dist, n_times_output),
               m.n_geos, NTimesOutput(m, n_times_output)),
   beta  |-> ConcatBetas(Betas(data_tensors, dist), m.n_geos)]

\* The sum over the channels without the coefficients.
EinsumUnweighted(x, w) ==
  AsSeq([g \in 1..Len(x) |-> AsSeq([t \in 1..Len(x[g]) |-> RSum(x[g][t])])])

\* einsum "gtm,gm->gt".
Einsum(x, w) ==
  AsSeq([g \in 1..Len(x) |-> AsSeq([t \in 1..Len(x[g]) |->
     RSum(AsSeq([c \in 1..Len(x[g][t]) |-> RMul(x[g][t][c], w[g][c])]))])])

\* Analyzer._get_kpi_means for one parameter draw.
\* tau_g + mu_t + the media, controls and non-media terms.
KpiMeansSum(m, dist, med, ctl, nmt) ==
  AsSeq([g \in 1..m.n_geos |-> AsSeq([t \in 1..m.n_times |->
     RAdd(RAdd(RAdd(RAdd(dist.tau_g[g], dist.mu_t[t]), med[g][t]),
               ctl[g][t]), nmt[g][t])])])

EinsumOf(tb) == Einsum(tb.media, tb.beta)

GetKpiMeans(m, data_tensors, dist) ==
  KpiMeansSum(m, dist,
    EinsumOf(GetTransformedMediaAndBeta(m, data_tensors, dist, None)),
    Einsum(Get(data_tensors.controls), dist.gamma_gc),
    IF ~IsNone(data_tensors.non_media_treatments)
    THEN Einsum(Get(data_tensors.non_media_treatments), dist.gamma_gn)
    ELSE AsSeq([g \in 1..m.n_geos |-> AsSeq([t \in 1..m.n_times |-> Zero])]))

(***************************************************************************)
(* Selection lists.  An element of a python list given as selected_times   *)
(* is a bool, a str or something else; the record keeps the python type.   *)
(***************************************************************************)
BoolItem(b) == [kind |-> "bool", b |-> b, s |-> ""]
StrItem(s) == [kind |-> "str", b |-> FALSE, s |-> s]
OtherItem == [kind |-> "other", b |-> FALSE, s |-> ""]

BoolList(bs) == AsSeq([i \in 1..Len(bs) |-> BoolItem(bs[i])])
StrList(ss) == AsSeq([i \in 1..Len(ss) |-> StrItem(ss[i])])

\* _is_bool_list
IsBoolList(l) == \A i \in 1..Len(l) : l[i].kind = "bool"

\* _is_str_list
IsStrList(l) == \A i \in 1..Len(l) : l[i].kind = "str"

\* _validate_selected_times: TRUE when it raises.
ValidateSelectedTimesRaises(selected_times, input_times, n_times) ==
  IF Len(selected_times) = 0 THEN FALSE
  ELSE IF IsBoolList(selected_times) THEN Len(selected_times) # n_times
  ELSE IF IsStrList(selected_times)
       THEN \E i \in 1..Len(selected_times) :
              selected_times[i].s \notin Range(input_times)
  ELSE TRUE

(***************************************************************************)
(* Tensors of any rank, for filter_and_aggregate_geos_and_times.  `shp` is *)
(* the shape of the tensor; the chain axis is left out.                    *)
(***************************************************************************)
RECURSIVE ZeroTensor(_)
ZeroTensor(shp) ==
  IF Len(shp) = 0 THEN Zero
  ELSE AsSeq([i \in 1..Head(shp) |-> ZeroTensor(Tail(shp))])

RECURSIVE TAdd(_, _, _)
TAdd(a, b, rank) ==
  IF rank = 0 THEN RAdd(a, b)
  ELSE AsSeq([i \in 1..Len(a) |-> TAdd(a[i], b[i], rank - 1)])

RECURSIVE FoldAdd(_, _)
FoldAdd(ts, shp) ==
  IF Len(ts) = 0 THEN ZeroTensor(shp)
  ELSE TAdd(Head(ts), FoldAdd(Tail(ts), shp), Len(shp))

RECURSIVE SumAxisButLast(_, _, _)
\* A sum over axis k that leaves out the last entry of the axis.
SumAxisButLast(t, k, shp) ==
  IF k = 1 THEN FoldAdd(SubSeq(t, 1, Len(t) - 1), Tail(shp))
  ELSE AsSeq([i \in 1..Len(t) |-> SumAxisButLast(t[i], k - 1, Tail(shp))])

RECURSIVE SumAxis(_, _, _)
\* Sum of tensor t (of shape shp) over its axis k.
SumAxis(t, k, shp) ==
  IF k = 1 THEN FoldAdd(t, Tail(shp))
  ELSE AsSeq([i \in 1..Len(t) |-> SumAxis(t[i], k - 1, Tail(shp))])

RECURSIVE MaskAxis(_, _, _)
\* tf.boolean_mask(t, mask, axis=k)
MaskAxis(t, k, mask) ==
  IF k = 1 THEN SelectByMask(t, mask)
  ELSE AsSeq([i \in 1..Len(t) |-> MaskAxis(t[i], k - 1, mask)])

CountTrue(mask) == Cardinality({i \in 1..Len(mask) : mask[i]})

\* The shape with its axis k removed.
DropAxis(shp, k) == SubSeq(shp, 1, k - 1) \o SubSeq(shp, k + 1, Len(shp))

\* The time length filter_and_aggregate_geos_and_times expects.
FilterNTimes(m, shp, flexible_time_dim, has_media_dim_arg) ==
  IF flexible_time_dim
  THEN (IF has_media_dim_arg THEN shp[Len(shp) - 1] ELSE shp[Len(shp)])
  ELSE m.n_times

AllowedNChannels(m) ==
  {m.n_media_channels, m.n_rf_channels,
   m.n_media_channels + m.n_rf_channels,
   m.n_media_channels + m.n_rf_channels + m.n_non_media_channels
     + m.n_organic_media_channels + m.n_organic_rf_channels}

\* The tensor ends in (n_geos, n_times, n_channels) for an allowed number of
\* channels, or that number plus one.
ShapeWithMediaDim(m, shp, n_times) ==
  /\ Len(shp) >= 3
  /\ SubSeq(shp, Len(shp) - 2, Len(shp) - 1) = <<m.n_geos, n_times>>
  /\ \E c \in AllowedNChannels(m) : shp[Len(shp)] \in {c, c + 1}

\* The tensor ends in (n_geos, n_times).
ShapeWithoutMediaDim(m, shp, n_times) == LastK(shp, 2) = <<m.n_geos, n_times>>

TensorShapeRaises(flexible_time_dim, has_media_dim_arg, w_media, wo_media) ==
  IF ~flexible_time_dim THEN ~w_media /\ ~wo_media
  ELSE IF has_media_dim_arg THEN ~w_media ELSE ~wo_media

\* The positions of the geo and time axes in the shape.
FilterDims(shp, has_media_dim) ==
  [geo |-> Len(shp) - 1 - (IF has_media_dim THEN 1 ELSE 0),
   time |-> Len(shp) - (IF has_media_dim THEN 1 ELSE 0)]

GeoMask(m, selected_geos, n) ==
  IF IsNone(selected_geos) THEN AsSeq([i \in 1..n |-> TRUE])
  ELSE AsSeq([i \in 1..Len(m.geo) |-> m.geo[i] \in Range(Get(selected_geos))])

TimeMask(m, selected_times, n) ==
  IF IsNone(selected_times) THEN AsSeq([i \in 1..n |-> TRUE])
  ELSE IF IsStrList(Get(selected_times))
       THEN AsSeq([i \in 1..Len(m.time) |->
               \E j \in 1..Len(Get(selected_times)) :
                  Get(selected_times)[j].s = m.time[i]])
  ELSE AsSeq([i \in 1..Len(Get(selected_times)) |-> Get(selected_times)[i].b])

\* The error of the selection, "none" if none, in the order the code raises.
FilterError(m, shp, selected_geos, selected_times, shape_err, dims, geo_mask, time_mask) ==
  IF shape_err THEN "tensor_shape"
  ELSE IF /\ ~IsNone(selected_geos)
          /\ \E i \in 1..Len(Get(selected_geos)) :
               Get(selected_geos)[i] \notin Range(m.geo)
       THEN "selected_geos"
  ELSE IF Len(geo_mask) # shp[dims.geo] THEN "mask_shape"
  ELSE IF /\ ~IsNone(selected_times)
          /\ ValidateSelectedTimesRaises(Get(selected_times), m.time,
                                         shp[dims.time])
       THEN "selected_times"
  ELSE IF Len(time_mask) # shp[dims.time] THEN "mask_shape"
  ELSE "none"

\* tf.boolean_mask along axis `dim` of x = [val, shape].
MaskStep(x, dim, mask) ==
  [val |-> MaskAxis(x.val, dim, mask),
   shape |-> [x.shape EXCEPT ![dim] = CountTrue(mask)]]

\* The einsum that sums axis `dim` of x = [val, shape], when asked for.
SumStep(x, dim, aggregate) ==
  IF aggregate
  THEN [val |-> SumAxis(x.val, dim, x.shape), shape |-> DropAxis(x.shape, dim)]
  ELSE x

\* The masks applied, then the time axis summed, then the geo axis.
FilterAndAggregate(tensor, shp, dims, geo_mask, time_mask, aggregate_geos, aggregate_times) ==
  SumStep(SumStep(MaskStep(MaskStep([val |-> tensor, shape |-> shp],
                                    dims.geo, geo_mask),
                           dims.time, time_mask),
                  dims.time, aggregate_times),
          dims.geo, aggregate_geos)

FilterResult(err, has_media_dim, out) ==
  [err |-> err,
   has_media_dim |-> has_media_dim,
   shape |-> IF err = "none" THEN out.shape ELSE <<>>,
   val |-> IF err = "none" THEN out.val ELSE <<>>]

FilterWithMasks(m, tensor, shp, selected_geos, selected_times, aggregate_geos, aggregate_times, shape_err, has_media_dim, dims, geo_mask, time_mask) ==
  FilterResult(
    FilterError(m, shp, selected_geos, selected_times, shape_err, dims,
                geo_mask, time_mask),
    has_media_dim,
    FilterAndAggregate(tensor, shp, dims, geo_mask, time_mask, aggregate_geos,
                       aggregate_times))

FilterWithDims(m, tensor, shp, selected_geos, selected_times, aggregate_geos, aggregate_times, shape_err, has_media_dim, dims) ==
  FilterWithMasks(m, tensor, shp, selected_geos, selected_times,
                  aggregate_geos, aggregate_times, shape_err, has_media_dim,
                  dims, GeoMask(m, selected_geos, shp[dims.geo]),
                  TimeMask(m, selected_times, shp[dims.time]))

FilterWithShapes(m, tensor, shp, selected_geos, selected_times, aggregate_geos, aggregate_times, flexible_time_dim, has_media_dim_arg, w_media, wo_media) ==
  FilterWithDims(m, tensor, shp, selected_geos, selected_times,
    aggregate_geos, aggregate_times,
    TensorShapeRaises(flexible_time_dim, has_media_dim_arg, w_media, wo_media),
    IF ~flexible_time_dim THEN w_media ELSE has_media_dim_arg,
    FilterDims(shp, IF ~flexible_time_dim THEN w_media ELSE has_media_dim_arg))

\* Analyzer.filter_and_aggregate_geos_and_times.  selected_geos and
\* selected_times are optional lists.
FilterAndAggregateGeosAndTimes(m, tensor, shp, selected_geos, selected_times, aggregate_geos, aggregate_times, flexible_time_dim, has_media_dim_arg) ==
  FilterWithShapes(m, tensor, shp, selected_geos, selected_times,
    aggregate_geos, aggregate_times, flexible_time_dim, has_media_dim_arg,
    ShapeWithMediaDim(m, shp,
      FilterNTimes(m, shp, flexible_time_dim, has_media_dim_arg)),
    ShapeWithoutMediaDim(m, shp,
      FilterNTimes(m, shp, flexible_time_dim, has_media_dim_arg)))

(***************************************************************************)
(* Checks shared by the operations.                                        *)
(***************************************************************************)
\* Analyzer._check_revenue_data_exists: TRUE when it raises.
CheckRevenueDataExistsRaises(m, use_kpi) ==
  m.kpi_type = "non_revenue" /\ ~use_kpi /\ IsNone(m.revenue_per_kpi)

\* Analyzer._check_kpi_transformation: TRUE when it raises.
\* A check that rejects the modeled scale in KPI terms instead.
CheckKpiTransformationRaisesKpi(inverse_transform_outcome, use_kpi) ==
  ~inverse_transform_outcome /\ use_kpi

CheckKpiTransformationRaises(inverse_transform_outcome, use_kpi) ==
  ~inverse_transform_outcome /\ ~use_kpi

\* The draws of the group an operation is asked to use.
DistType(use_posterior) == IF use_posterior THEN "posterior" ELSE "prior"
Params(m, use_posterior) == IF use_posterior THEN m.posterior ELSE m.prior

\* _check_shape_matches(t1, t2=...): TRUE when it raises.
CheckShapeMatchesRaises(t1, t2) ==
  ~IsNone(t1) /\ ~IsNone(t2) /\ Shape3(Get(t1)) # Shape3(Get(t2))

\* _check_shape_matches(t1, t2_shape=...): TRUE when it raises.
CheckShapeRaises(t1, t2_shape) ==
  ~IsNone(t1) /\ Shape3(Get(t1)) # t2_shape

(***************************************************************************)
(* The draw batches.                                                       *)
(***************************************************************************)
\* A batch loop that steps one draw too far.
BatchStartingIndicesSkipping(n_draws, batch_size) ==
  AsSeq([k \in 1..((n_draws + batch_size) \div (batch_size + 1)) |->
     (k - 1) * (batch_size + 1)])

\* np.arange(n_draws, step=batch_size)
BatchStartingIndices(n_draws, batch_size) ==
  AsSeq([k \in 1..((n_draws + batch_size - 1) \div batch_size) |->
     (k - 1) * batch_size])

\* np.min([n_draws, start_index + batch_size])
StopIndex(n_draws, start_index, batch_size) ==
  Min2(n_draws, start_index + batch_size)

\* The half-open draw ranges [start_index, stop_index) of the batch loop.
BatchRanges(n_draws, batch_size) ==
  LET starts == BatchStartingIndices(n_draws, batch_size)
  IN AsSeq([k \in 1..Len(starts) |->
        <<starts[k], StopIndex(n_draws, starts[k], batch_size)>>])

\* A slice that always starts at the first draw.
SliceDrawsFromFirst(params, rng) ==
  IF rng[2] <= rng[1] THEN <<>> ELSE SubSeq(params, 1, rng[2] - rng[1])

\* params[k][:, start_index:stop_index, ...]
SliceDraws(params, rng) ==
  IF rng[2] <= rng[1] THEN <<>> ELSE SubSeq(params, rng[1] + 1, rng[2])

(***************************************************************************)
(* Analyzer.expected_outcome                                               *)
(***************************************************************************)
ExpectedOutcomeShapeRaises(m, new_data) ==
  \E f \in {"controls", "media", "reach", "frequency", "organic_media",
            "organic_reach", "organic_frequency", "non_media_treatments"} :
     CheckShapeMatchesRaises(new_data[f], m[f])

\* The checks expected_outcome makes before its batch loop, "none" if they
\* pass.
ExpectedOutcomeEarly(m, a) ==
  IF CheckRevenueDataExistsRaises(m, a.use_kpi) THEN "revenue_data"
  ELSE IF CheckKpiTransformationRaises(a.inverse_transform_outcome, a.use_kpi)
       THEN "kpi_transformation"
  ELSE IF DistType(a.use_posterior) \notin m.groups THEN "not_fitted"
  ELSE IF ~IsNone(a.new_data) /\ ExpectedOutcomeShapeRaises(m, Get(a.new_data))
       THEN "shape"
  ELSE "none"

\* The scaled tensors the batch loop reads.
ExpectedOutcomeData(m, a) ==
  IF IsNone(a.new_data) THEN GetScaledDataTensorsOriginal(m)
  ELSE GetScaledDataTensors(m, Get(a.new_data), TRUE)

\* One pass of the batch loop: the KPI means of the draws of the batch.
BatchKpiMeans(m, data_tensors, batch_dists) ==
  AsSeq([i \in 1..Len(batch_dists) |->
     GetKpiMeans(m, data_tensors, batch_dists[i])])

\* The batch loop and the concatenation of its results along the draws.
OutcomeMeans(m, data_tensors, params, ranges) ==
  Flatten(AsSeq([k \in 1..Len(ranges) |->
     BatchKpiMeans(m, data_tensors, SliceDraws(params, ranges[k]))]))

\* y in KPI units, or in revenue units through the model's revenue_per_kpi.
OutcomeUnits(m, y, use_kpi, g, t) ==
  IF ~use_kpi THEN RMul(y, Get(m.revenue_per_kpi)[g][t]) ELSE y

InverseOutcomeMeans(m, a, outcome_means) ==
  IF a.inverse_transform_outcome
  THEN AsSeq([i \in 1..Len(outcome_means) |->
          AsSeq([g \in 1..m.n_geos |-> AsSeq([t \in 1..m.n_times |->
             OutcomeUnits(m, KpiInverse(m, outcome_means[i][g][t]),
                          a.use_kpi, g, t)])])])
  ELSE outcome_means

ExpectedOutcomeFiltered(m, a, outcome_means) ==
  FilterAndAggregateGeosAndTimes(m, outcome_means,
    <<Len(outcome_means), m.n_geos, m.n_times>>, a.selected_geos,
    a.selected_times, a.aggregate_geos, a.aggregate_times, FALSE, TRUE)

ExpectedOutcomeResult(early, ranges, outcome_means, filtered) ==
  IF early # "none"
  THEN [err |-> early, val |-> <<>>, shape |-> <<>>, ranges |-> <<>>,
        outcome_means |-> <<>>, batches_done |-> 0]
  ELSE [err |-> filtered.err, val |-> filtered.val,
        shape |-> filtered.shape, ranges |-> ranges,
        outcome_means |-> outcome_means, batches_done |-> Len(ranges)]

ExpectedOutcomeWithMeans(m, a, ranges, outcome_means) ==
  ExpectedOutcomeResult(ExpectedOutcomeEarly(m, a), ranges, outcome_means,
    ExpectedOutcomeFiltered(m, a, InverseOutcomeMeans(m, a, outcome_means)))

ExpectedOutcomeWithParams(m, a, params) ==
  ExpectedOutcomeWithMeans(m, a, BatchRanges(Len(params), a.batch_size),
    OutcomeMeans(m, ExpectedOutcomeData(m, a), params,
                 BatchRanges(Len(params), a.batch_size)))

\* a: [use_posterior, new_data, selected_geos, selected_times,
\*     aggregate_geos, aggregate_times, inverse_transform_outcome, use_kpi,
\*     batch_size]; new_data is an optional DataTensors.
ExpectedOutcome(m, a) ==
  ExpectedOutcomeWithParams(m, a, Params(m, a.use_posterior))

(***************************************************************************)
(* Non-media baselines.  An entry of non_media_baseline_values is "min",   *)
(* "max", a float, or anything else ("bad": another string, an int).       *)
(***************************************************************************)
BaselineMin == [kind |-> "min", v |-> Zero]
BaselineMax == [kind |-> "max", v |-> Zero]
BaselineFloat(v) == [kind |-> "float", v |-> v]
BaselineBad == [kind |-> "bad", v |-> Zero]
\* A python int: a number, but not an instance of float.
BaselineInt(v) == [kind |-> "int", v |-> v]

\* Numpy broadcasting of a time axis of length T against one of length L.
Broadcastable(T, L) == T = L \/ T = 1 \/ L = 1
BroadcastLen(T, L) == IF T = 1 THEN L ELSE T
BIdx(len, t) == IF len = 1 THEN 1 ELSE t

\* All the values of channel c of a (geo, time, channel) tensor.
ChannelValues(tensor, c) ==
  Flatten(AsSeq([g \in 1..NGeo(tensor) |->
             AsSeq([t \in 1..NTime(tensor) |-> tensor[g][t][c]])]))

\* A baseline that takes the maximum for "min" and the minimum for "max".
BaselineForChannelSwapped(non_media_treatments, baseline_value, channel) ==
  IF baseline_value.kind = "min"
  THEN RMaxSeq(ChannelValues(non_media_treatments, channel))
  ELSE IF baseline_value.kind = "max"
       THEN RMinSeq(ChannelValues(non_media_treatments, channel))
  ELSE baseline_value.v

\* baseline_for_channel of _compute_non_media_baseline, for an entry that
\* is "min", "max" or a float.
BaselineForChannel(non_media_treatments, baseline_value, channel) ==
  IF baseline_value.kind = "min"
  THEN RMinSeq(ChannelValues(non_media_treatments, channel))
  ELSE IF baseline_value.kind = "max"
       THEN RMaxSeq(ChannelValues(non_media_treatments, channel))
  ELSE baseline_value.v

\* _compute_non_media_baseline; baseline values and selected times are
\* optional.
ComputeNonMediaBaseline(non_media_treatments, non_media_baseline_values, non_media_selected_times) ==
  LET T == NTime(non_media_treatments)
      nc == NChan(non_media_treatments)
      sel == IF IsNone(non_media_selected_times) THEN AsSeq([t \in 1..T |-> TRUE])
             ELSE Get(non_media_selected_times)
      filled == IF IsNone(non_media_baseline_values)
                THEN AsSeq([c \in 1..nc |-> BaselineMin])
                ELSE Get(non_media_baseline_values)
      baseline_for_channel(c) ==
        BaselineForChannel(non_media_treatments, filled[c], c)
      err == IF nc # Len(filled) THEN "baseline_length"
             ELSE IF \E c \in 1..nc :
                       filled[c].kind \notin {"min", "max", "float"}
                  THEN "baseline_value"
             ELSE IF ~Broadcastable(T, Len(sel)) THEN "broadcast"
             ELSE "none"
  IN [err |-> err,
      val |-> IF err # "none" THEN <<>>
              ELSE AsSeq([g \in 1..NGeo(non_media_treatments) |->
                     AsSeq([t \in 1..BroadcastLen(T, Len(sel)) |->
                        AsSeq([c \in 1..nc |->
                           IF sel[BIdx(Len(sel), t)]
                           THEN baseline_for_channel(c) ELSE Zero])])])]

(***************************************************************************)
(* Analyzer._get_incremental_kpi for one parameter draw.                   *)
(***************************************************************************)
\* n_times_output as _get_incremental_kpi derives it from the media (or
\* reach) tensor.
IncrementalNTimesOutput(m, data_tensors) ==
  LET n_times == IF ~IsNone(data_tensors.media)
                 THEN NTime(Get(data_tensors.media))
                 ELSE NTime(Get(data_tensors.reach))
  IN IF n_times # m.n_media_times THEN Some(n_times) ELSE None

\* The error of the non-media part of _get_incremental_kpi, "none" if none.
NonMediaKpiError(m, data_tensors, baseline) ==
  IF baseline.err # "none" THEN baseline.err
  ELSE IF NTime(Get(data_tensors.non_media_treatments))
            # NTimesOutput(m, IncrementalNTimesOutput(m, data_tensors))
       THEN "concat"
  ELSE "none"

\* The error _get_incremental_kpi raises on these tensors, "none" if none.
GetIncrementalKpiError(m, data_tensors, non_media_baseline_values) ==
  IF IsNone(data_tensors.media) /\ IsNone(data_tensors.reach)
  THEN "no_media"
  ELSE IF TransformedMediaRaises(m, data_tensors,
                                 IncrementalNTimesOutput(m, data_tensors))
       THEN "adstock"
  ELSE IF IsNone(data_tensors.non_media_treatments) THEN "none"
  ELSE NonMediaKpiError(m, data_tensors,
         ComputeNonMediaBaseline(Get(data_tensors.non_media_treatments),
                                 non_media_baseline_values, None))

\* combined_media_transformed * combined_beta
CombinedMediaKpi(tb, ng, nt) ==
  AsSeq([g \in 1..ng |-> AsSeq([t \in 1..nt |->
     AsSeq([c \in 1..Len(tb.beta[g]) |->
        RMul(tb.media[g][t][c], tb.beta[g][c])])])])

\* (non_media_treatments - baseline) * gamma_gn
NonMediaKpi(nm, non_media_scaled_baseline, gamma_gn, ng, nt) ==
  AsSeq([g \in 1..ng |-> AsSeq([t \in 1..nt |->
     AsSeq([c \in 1..NChan(nm) |->
        RMul(RSub(nm[g][t][c], non_media_scaled_baseline[g][t][c]),
             gamma_gn[g][c])])])])

\* The media KPI, with the non-media KPI concatenated to it when non-media
\* treatments are present.
WithNonMediaKpi(m, data_tensors, dist, non_media_baseline_values, nt, combined_media_kpi) ==
  IF IsNone(data_tensors.non_media_treatments) THEN combined_media_kpi
  ELSE ConcatChannels(
         <<combined_media_kpi,
           NonMediaKpi(Get(data_tensors.non_media_treatments),
             ComputeNonMediaBaseline(Get(data_tensors.non_media_treatments),
                                     non_media_baseline_values, None).val,
             dist.gamma_gn, m.n_geos, nt)>>,
         m.n_geos, nt)

GetIncrementalKpiAt(m, data_tensors, dist, non_media_baseline_values, nto) ==
  WithNonMediaKpi(m, data_tensors, dist, non_media_baseline_values,
    NTimesOutput(m, nto),
    CombinedMediaKpi(GetTransformedMediaAndBeta(m, data_tensors, dist, nto),
                     m.n_geos, NTimesOutput(m, nto)))

GetIncrementalKpi(m, data_tensors, dist, non_media_baseline_values) ==
  GetIncrementalKpiAt(m, data_tensors, dist, non_media_baseline_values,
                      IncrementalNTimesOutput(m, data_tensors))

(***************************************************************************)
(* Analyzer._inverse_outcome on one value and on a (geo, time, channel)    *)
(* tensor.                                                                 *)
(***************************************************************************)
\* An inverse transformation that keeps the centering constant.
InverseOutcomeValueCentered(m, x) == KpiInverse(m, x)

\* inverse(x) - inverse(0)
InverseOutcomeValue(m, x) == RSub(KpiInverse(m, x), KpiInverse(m, Zero))

\* revenue_per_kpi is the optional tensor of the call; the model's is used
\* when it is None.
RevenuePerKpiOr(m, revenue_per_kpi) ==
  IF IsNone(revenue_per_kpi) THEN m.revenue_per_kpi ELSE revenue_per_kpi

\* The KPI value, or revenue_per_kpi times it ("gt,...gtm->...gtm").
InverseOutcomeUnits(kpi, use_kpi, rpk, g, t) ==
  IF use_kpi THEN kpi ELSE RMul(Get(rpk)[g][t], kpi)

InverseOutcome(m, modeled_incremental_outcome, use_kpi, revenue_per_kpi) ==
  AsSeq([g \in 1..Len(modeled_incremental_outcome) |->
     AsSeq([t \in 1..Len(modeled_incremental_outcome[g]) |->
        AsSeq([c \in 1..Len(modeled_incremental_outcome[g][t]) |->
           InverseOutcomeUnits(
             InverseOutcomeValue(m, modeled_incremental_outcome[g][t][c]),
             use_kpi, RevenuePerKpiOr(m, revenue_per_kpi), g, t)])])])

\* The einsum of _inverse_outcome needs revenue_per_kpi to have the time
\* axis of the outcome.
InverseOutcomeRaises(m, nt, use_kpi, revenue_per_kpi) ==
  ~use_kpi /\ NTime(Get(RevenuePerKpiOr(m, revenue_per_kpi))) # nt

(***************************************************************************)
(* Analyzer._incremental_outcome_impl on one batch of draws.               *)
(***************************************************************************)
RECURSIVE TSub(_, _, _)
TSub(a, b, rank) ==
  IF rank = 0 THEN RSub(a, b)
  ELSE AsSeq([i \in 1..Len(a) |-> TSub(a[i], b[i], rank - 1)])

\* _get_incremental_kpi on every draw of the batch.
TransformedOutcome(m, data_tensors, batch_dists, a) ==
  AsSeq([i \in 1..Len(batch_dists) |->
     GetIncrementalKpi(m, data_tensors, batch_dists[i],
                       a.non_media_baseline_values)])

\* The outcome in KPI or revenue units when inverse_transform_outcome.
ImplInverse(m, data_tensors, a, transformed_outcome) ==
  IF a.inverse_transform_outcome
  THEN AsSeq([i \in 1..Len(transformed_outcome) |->
          InverseOutcome(m, transformed_outcome[i], a.use_kpi,
                         data_tensors.revenue_per_kpi)])
  ELSE transformed_outcome

ImplFiltered(m, a, incremental_outcome) ==
  FilterAndAggregateGeosAndTimes(m, incremental_outcome,
    <<Len(incremental_outcome), m.n_geos, Len(incremental_outcome[1][1]),
      Len(incremental_outcome[1][1][1])>>,
    a.selected_geos, a.selected_times, a.aggregate_geos, a.aggregate_times,
    TRUE, TRUE)

\* The first error of the batch, "none" if none.
ImplError(m, data_tensors, a, kpi_err, transformed_outcome, filtered) ==
  IF CheckRevenueDataExistsRaises(m, a.use_kpi) THEN "revenue_data"
  ELSE IF kpi_err # "none" THEN kpi_err
  ELSE IF /\ a.inverse_transform_outcome
          /\ InverseOutcomeRaises(m, Len(transformed_outcome[1][1]),
                                  a.use_kpi, data_tensors.revenue_per_kpi)
       THEN "revenue_per_kpi_shape"
  ELSE filtered.err

ImplResult(err, kpi_err, transformed_outcome, filtered) ==
  [err |-> err,
   transformed |-> IF kpi_err = "none" THEN transformed_outcome ELSE <<>>,
   shape |-> IF err = "none" THEN filtered.shape ELSE <<>>,
   val |-> IF err = "none" THEN filtered.val ELSE <<>>]

ImplWithFiltered(m, data_tensors, a, kpi_err, transformed_outcome, filtered) ==
  ImplResult(
    ImplError(m, data_tensors, a, kpi_err, transformed_outcome, filtered),
    kpi_err, transformed_outcome, filtered)

ImplWithTransformed(m, data_tensors, a, kpi_err, transformed_outcome) ==
  ImplWithFiltered(m, data_tensors, a, kpi_err, transformed_outcome,
    ImplFiltered(m, a, ImplInverse(m, data_tensors, a, transformed_outcome)))

\* a: the arguments of incremental_outcome.
IncrementalOutcomeImpl(m, data_tensors, batch_dists, a) ==
  ImplWithTransformed(m, data_tensors, a,
    GetIncrementalKpiError(m, data_tensors, a.non_media_baseline_values),
    TransformedOutcome(m, data_tensors, batch_dists, a))

(***************************************************************************)
(* Analyzer.incremental_outcome                                            *)
(***************************************************************************)
\* The scaling-factor validation: TRUE when it raises.
\* A validation that lets equal scaling factors through.
ScalingFactorRaisesStrict(scaling_factor0, scaling_factor1) ==
  \/ RLt(scaling_factor1, Zero)
  \/ RLt(scaling_factor0, Zero)
  \/ RLt(scaling_factor1, scaling_factor0)

ScalingFactorRaises(scaling_factor0, scaling_factor1) ==
  \/ RLt(scaling_factor1, Zero)
  \/ RLt(scaling_factor0, Zero)
  \/ RLeq(scaling_factor1, scaling_factor0)

\* The first of new media, reach and frequency that is given, if any.
NextData(new_data) ==
  IF ~IsNone(new_data.media) THEN new_data.media
  ELSE IF ~IsNone(new_data.reach) THEN new_data.reach
  ELSE new_data.frequency

NewNMediaTimes(m, new_data) ==
  IF ~IsNone(NextData(new_data)) THEN NTime(Get(NextData(new_data)))
  ELSE IF ~IsNone(new_data.revenue_per_kpi)
          /\ NTime(Get(new_data.revenue_per_kpi)) # m.n_times
       THEN NTime(Get(new_data.revenue_per_kpi))
  ELSE m.n_media_times

UseFlexibleTime(m, new_data) ==
  IF ~IsNone(NextData(new_data))
  THEN NTime(Get(NextData(new_data))) # m.n_media_times
  ELSE /\ ~IsNone(new_data.revenue_per_kpi)
       /\ NTime(Get(new_data.revenue_per_kpi)) # m.n_times

\* required_new_params
RequiredNewParams(m, new_data, use_kpi) ==
  (IF ~IsNone(m.media) THEN <<new_data.media>> ELSE <<>>)
  \o (IF ~IsNone(m.reach) THEN <<new_data.reach, new_data.frequency>>
      ELSE <<>>)
  \o (IF ~IsNone(m.organic_media) THEN <<new_data.organic_media>> ELSE <<>>)
  \o (IF ~IsNone(m.organic_reach)
      THEN <<new_data.organic_reach, new_data.organic_frequency>> ELSE <<>>)
  \o (IF ~use_kpi THEN <<new_data.revenue_per_kpi>> ELSE <<>>)

\* `x and not _is_bool_list(x)` for an optional list x.
NonEmptyNotBool(l) == ~IsNone(l) /\ Len(Get(l)) > 0 /\ ~IsBoolList(Get(l))

\* The error of the flexible-time and shape validation, "none" if none.
NewDataError(m, new_data, a) ==
  LET flex == UseFlexibleTime(m, new_data)
      req == RequiredNewParams(m, new_data, a.use_kpi)
      new_n == NewNMediaTimes(m, new_data)
  IN IF flex /\ \E i \in 1..Len(req) : IsNone(req[i])
     THEN "flexible_missing"
     ELSE IF flex /\ (NonEmptyNotBool(a.selected_times)
                      \/ NonEmptyNotBool(a.media_selected_times))
          THEN "flexible_selection"
     ELSE IF \/ CheckShapeRaises(new_data.media,
                                 <<m.n_geos, new_n, m.n_media_channels>>)
             \/ CheckShapeRaises(new_data.reach,
                                 <<m.n_geos, new_n, m.n_rf_channels>>)
             \/ CheckShapeRaises(new_data.frequency,
                                 <<m.n_geos, new_n, m.n_rf_channels>>)
             \/ CheckShapeMatchesRaises(new_data.non_media_treatments,
                                        m.non_media_treatments)
             \/ CheckShapeMatchesRaises(new_data.organic_media,
                                        m.organic_media)
             \/ CheckShapeMatchesRaises(new_data.organic_reach,
                                        m.organic_reach)
             \/ CheckShapeMatchesRaises(new_data.organic_frequency,
                                        m.organic_frequency)
             \/ /\ ~a.use_kpi
                /\ ~IsNone(new_data.revenue_per_kpi)
                /\ Shape2(Get(new_data.revenue_per_kpi))
                     # <<m.n_geos, IF flex THEN new_n ELSE m.n_times>>
          THEN "shape"
     ELSE "none"

\* media_selected_times as the list of booleans the scenarios are built
\* from.
MediaSelectedTimesMask(m, media_selected_times, new_n_media_times) ==
  IF IsNone(media_selected_times)
  THEN AsSeq([t \in 1..new_n_media_times |-> TRUE])
  ELSE IF IsStrList(Get(media_selected_times))
       THEN AsSeq([t \in 1..Len(m.media_time) |->
               \E j \in 1..Len(Get(media_selected_times)) :
                  Get(media_selected_times)[j].s = m.media_time[t]])
  ELSE AsSeq([t \in 1..Len(Get(media_selected_times)) |->
          Get(media_selected_times)[t].b])

\* A counterfactual that scales every period, selected or not.
CounterfactualEverywhere(scaling_factor, media_selected_times) ==
  AsSeq([t \in 1..Len(media_selected_times) |-> scaling_factor])

\* 1 + (scaling_factor - 1) * np.array(media_selected_times)
Counterfactual(scaling_factor, media_selected_times) ==
  AsSeq([t \in 1..Len(media_selected_times) |->
     RAdd(One, RMul(RSub(scaling_factor, One),
                    IF media_selected_times[t] THEN One ELSE Zero))])

\* tensor * counterfactual[:, None]
ScaleByCounterfactual(tensor, counterfactual) ==
  LET T == NTime(tensor)
      L == Len(counterfactual)
  IN AsSeq([g \in 1..NGeo(tensor) |-> AsSeq([t \in 1..BroadcastLen(T, L) |->
        AsSeq([c \in 1..NChan(tensor) |->
           RMul(tensor[g][BIdx(T, t)][c], counterfactual[BIdx(L, t)])])])])

OptScale(o, counterfactual) ==
  IF IsNone(o) THEN None ELSE Some(ScaleByCounterfactual(Get(o), counterfactual))

\* The four scaled tensors multiplied by a counterfactual raise when a
\* time axis cannot be broadcast against it.
CounterfactualRaises(data_tensors, counterfactual) ==
  \E f \in {"media", "reach", "organic_media", "organic_reach"} :
     /\ ~IsNone(data_tensors[f])
     /\ ~Broadcastable(NTime(Get(data_tensors[f])), Len(counterfactual))

\* The new_data of scenario k: execution tensors times the counterfactual,
\* frequencies and revenue_per_kpi as they are.
ScenarioData(data_tensors, counterfactual, non_media_treatments) ==
  [EmptyData EXCEPT
     !.media = OptScale(data_tensors.media, counterfactual),
     !.reach = OptScale(data_tensors.reach, counterfactual),
     !.frequency = data_tensors.frequency,
     !.organic_media = OptScale(data_tensors.organic_media, counterfactual),
     !.organic_reach = OptScale(data_tensors.organic_reach, counterfactual),
     !.organic_frequency = data_tensors.organic_frequency,
     !.non_media_treatments = non_media_treatments,
     !.revenue_per_kpi = data_tensors.revenue_per_kpi]

IncrementalOutcomeFailed(e) ==
  [err |-> e, val |-> <<>>, shape |-> <<>>, ranges |-> <<>>,
   batches_done |-> 0, media_selected_times |-> <<>>,
   data_tensors |-> EmptyData, new0 |-> EmptyData, new1 |-> EmptyData,
   scenario0_run |-> FALSE]

\* The checks incremental_outcome makes before its batch loop, "none" if
\* they pass.
IncrementalOutcomeEarly(m, a, new_data, data_tensors, media_selected_times, baseline) ==
  IF CheckRevenueDataExistsRaises(m, a.use_kpi) THEN "revenue_data"
  ELSE IF CheckKpiTransformationRaises(a.inverse_transform_outcome, a.use_kpi)
       THEN "kpi_transformation"
  ELSE IF DistType(a.use_posterior) \notin m.groups THEN "not_fitted"
  ELSE IF ScalingFactorRaises(a.scaling_factor0, a.scaling_factor1)
       THEN "scaling_factor"
  ELSE IF NewDataError(m, new_data, a) # "none"
       THEN NewDataError(m, new_data, a)
  ELSE IF /\ ~IsNone(a.media_selected_times)
          /\ ValidateSelectedTimesRaises(Get(a.media_selected_times),
                                         m.media_time,
                                         NewNMediaTimes(m, new_data))
       THEN "media_selected_times"
  ELSE IF CounterfactualRaises(data_tensors,
            Counterfactual(a.scaling_factor0, media_selected_times))
       THEN "broadcast"
  ELSE IF ~IsNone(data_tensors.non_media_treatments) /\ baseline.err # "none"
       THEN baseline.err
  ELSE "none"

\* The new_data of the two scenarios: scenario 0 has the non-media
\* treatments at their baseline, scenario 1 has them as they are.
ScenarioNewData(a, data_tensors, media_selected_times, baseline) ==
  <<ScenarioData(data_tensors,
                 Counterfactual(a.scaling_factor0, media_selected_times),
                 IF IsNone(data_tensors.non_media_treatments) THEN None
                 ELSE Some(baseline.val)),
    ScenarioData(data_tensors,
                 Counterfactual(a.scaling_factor1, media_selected_times),
                 data_tensors.non_media_treatments)>>

\* Scenario 0 is computed unless it is known to be all zeros.
Scenario0Run(a, media_selected_times) ==
  a.scaling_factor0 # Zero
  \/ \E t \in 1..Len(media_selected_times) : ~media_selected_times[t]

\* The batch loop: _incremental_outcome_impl on each batch, for scenario 1
\* and, when it is run, for scenario 0.
ScenarioBatches(m, a, scaled, params, ranges, scenario0_run) ==
  AsSeq([s \in 1..2 |->
     IF s = 1 /\ ~scenario0_run THEN <<>>
     ELSE AsSeq([k \in 1..Len(ranges) |->
             IncrementalOutcomeImpl(m, scaled[s],
                                    SliceDraws(params, ranges[k]), a)])])

ScenarioBatchError(impls, scenario0_run) ==
  IF impls[2][1].err # "none" THEN impls[2][1].err
  ELSE IF scenario0_run THEN impls[1][1].err ELSE "none"

\* incremental_outcome_temps: scenario 1 minus scenario 0, batch by batch.
ScenarioBatchDifferences(impls, scenario0_run) ==
  AsSeq([k \in 1..Len(impls[2]) |->
     IF scenario0_run
     THEN TSub(impls[2][k].val, impls[1][k].val, Len(impls[2][k].shape))
     ELSE impls[2][k].val])

IncrementalOutcomeResult(early, batch_err, data_tensors, media_selected_times, news, ranges, n_draws, scenario0_run, impls) ==
  IF early # "none" THEN IncrementalOutcomeFailed(early)
  ELSE IF batch_err # "none"
       THEN [IncrementalOutcomeFailed(batch_err) EXCEPT
               !.media_selected_times = media_selected_times,
               !.data_tensors = data_tensors,
               !.new0 = news[1], !.new1 = news[2]]
  ELSE [err |-> "none",
        val |-> Flatten(ScenarioBatchDifferences(impls, scenario0_run)),
        shape |-> [impls[2][1].shape EXCEPT ![1] = n_draws],
        ranges |-> ranges,
        batches_done |-> Len(ranges),
        media_selected_times |-> media_selected_times,
        data_tensors |-> data_tensors,
        new0 |-> news[1],
        new1 |-> news[2],
        scenario0_run |-> scenario0_run]

IncrementalOutcomeWithBatches(early, data_tensors, media_selected_times, news, ranges, n_draws, scenario0_run, impls) ==
  IncrementalOutcomeResult(early,
    IF early # "none" THEN "none"
    ELSE ScenarioBatchError(impls, scenario0_run),
    data_tensors, media_selected_times, news, ranges, n_draws, scenario0_run,
    impls)

IncrementalOutcomeWithScaled(m, a, early, data_tensors, media_selected_times, news, scaled, params, ranges) ==
  IncrementalOutcomeWithBatches(early, data_tensors, media_selected_times,
    news, ranges, Len(params), Scenario0Run(a, media_selected_times),
    ScenarioBatches(m, a, scaled, params, ranges,
                    Scenario0Run(a, media_selected_times)))

IncrementalOutcomeWithScenarios(m, a, early, data_tensors, media_selected_times, news, params) ==
  IncrementalOutcomeWithScaled(m, a, early, data_tensors,
    media_selected_times, news,
    AsSeq([s \in 1..2 |->
       GetScaledDataTensors(m, news[s], a.include_non_paid_channels)]),
    params, BatchRanges(Len(params), a.batch_size))

IncrementalOutcomeWithBaseline(m, a, new_data, data_tensors, media_selected_times, baseline) ==
  IncrementalOutcomeWithScenarios(m, a,
    IncrementalOutcomeEarly(m, a, new_data, data_tensors,
                            media_selected_times, baseline),
    data_tensors, media_selected_times,
    ScenarioNewData(a, data_tensors, media_selected_times, baseline),
    Params(m, a.use_posterior))

IncrementalOutcomeWithData(m, a, new_data, data_tensors, media_selected_times) ==
  IncrementalOutcomeWithBaseline(m, a, new_data, data_tensors,
    media_selected_times,
    ComputeNonMediaBaseline(Get(data_tensors.non_media_treatments),
      a.non_media_baseline_values,
      Some(LastK(media_selected_times, m.n_times))))

IncrementalOutcomeOn(m, a, new_data) ==
  IncrementalOutcomeWithData(m, a, new_data,
    FillMissingDataTensors(m, new_data,
      {"media", "reach", "frequency", "organic_media", "organic_reach",
       "organic_frequency", "non_media_treatments", "revenue_per_kpi"}),
    MediaSelectedTimesMask(m, a.media_selected_times,
                           NewNMediaTimes(m, new_data)))

\* a: [use_posterior, new_data, non_media_baseline_values, scaling_factor0,
\*     scaling_factor1, selected_geos, selected_times, media_selected_times,
\*     aggregate_geos, aggregate_times, inverse_transform_outcome, use_kpi,
\*     include_non_paid_channels, batch_size]
IncrementalOutcome(m, a) ==
  IncrementalOutcomeOn(m, a,
    IF IsNone(a.new_data) THEN EmptyData ELSE Get(a.new_data))

(***************************************************************************)
(* The models and the arguments the operations are called with.            *)
(***************************************************************************)
ModelShapes ==
  {[fams |-> {"media"}, n_geos |-> 1, n_lag |-> 1,
    kpi_type |-> "revenue", has_rpk |-> FALSE],
   [fams |-> {"media", "rf", "non_media"}, n_geos |-> 2, n_lag |-> 1,
    kpi_type |-> "non_revenue", has_rpk |-> TRUE],
   [fams |-> {"rf", "organic_media", "organic_rf", "non_media"},
    n_geos |-> 2, n_lag |-> 0, kpi_type |-> "non_revenue",
    has_rpk |-> FALSE]}

\* A model as constructed: no draws have been sampled yet.
NewModel(shape, n_draws) ==
  MakeModel([fams |-> shape.fams, n_geos |-> shape.n_geos, n_times |-> 2,
             n_lag |-> shape.n_lag, kpi_type |-> shape.kpi_type,
             has_rpk |-> shape.has_rpk, groups |-> {},
             n_draws |-> n_draws])

\* A mask that selects the odd positions of an axis of length n.
AltMask(n) == AsSeq([i \in 1..n |-> i % 2 = 1])

\* Selections and aggregations of the output.
OutputProfiles(nt) ==
  {[selected_geos |-> None, selected_times |-> None,
    aggregate_geos |-> TRUE, aggregate_times |-> TRUE],
   [selected_geos |-> Some(<<"g1">>),
    selected_times |-> Some(BoolList(AltMask(nt))),
    aggregate_geos |-> FALSE, aggregate_times |-> FALSE],
   [selected_geos |-> None, selected_times |-> Some(StrList(<<"t2">>)),
    aggregate_geos |-> TRUE, aggregate_times |-> FALSE],
   [selected_geos |-> None, selected_times |-> None,
    aggregate_geos |-> FALSE, aggregate_times |-> TRUE]}

NoSelection ==
  [selected_geos |-> None, selected_times |-> None,
   aggregate_geos |-> FALSE, aggregate_times |-> FALSE]

\* (inverse_transform_outcome, use_kpi)
OutcomeScales ==
  {[inverse_transform_outcome |-> TRUE, use_kpi |-> TRUE],
   [inverse_transform_outcome |-> TRUE, use_kpi |-> FALSE],
   [inverse_transform_outcome |-> FALSE, use_kpi |-> TRUE]}

\* New execution data with nt media time periods for every family the
\* model has, and revenue_per_kpi with nt periods.
NewExecution(m, nt) ==
  [EmptyData EXCEPT
     !.media = IF IsNone(m.media) THEN None
               ELSE Some(Tensor3(1, m.n_geos, nt, 1)),
     !.reach = IF IsNone(m.reach) THEN None
               ELSE Some(Tensor3(0, m.n_geos, nt, 1)),
     !.frequency = IF IsNone(m.reach) THEN None
                   ELSE Some(FreqTensor3(1, m.n_geos, nt, 1)),
     !.organic_media = IF IsNone(m.organic_media) THEN None
                       ELSE Some(Tensor3(2, m.n_geos, nt, 1)),
     !.organic_reach = IF IsNone(m.organic_reach) THEN None
                       ELSE Some(Tensor3(1, m.n_geos, nt, 1)),
     !.organic_frequency = IF IsNone(m.organic_reach) THEN None
                           ELSE Some(FreqTensor3(0, m.n_geos, nt, 1))]

\* Arguments of expected_outcome.
ExpectedOutcomeDefaults ==
  [use_posterior |-> TRUE, new_data |-> None,
   selected_geos |-> None, selected_times |-> None,
   aggregate_geos |-> TRUE, aggregate_times |-> TRUE,
   inverse_transform_outcome |-> TRUE, use_kpi |-> FALSE,
   batch_size |-> 100]

WithOutput(a, o) ==
  [a EXCEPT !.selected_geos = o.selected_geos,
            !.selected_times = o.selected_times,
            !.aggregate_geos = o.aggregate_geos,
            !.aggregate_times = o.aggregate_times]

WithScale(a, sc) ==
  [a EXCEPT !.inverse_transform_outcome = sc.inverse_transform_outcome,
            !.use_kpi = sc.use_kpi]

ExpectedOutcomeArgs(m) ==
  {[WithOutput(ExpectedOutcomeDefaults, o) EXCEPT
      !.use_posterior = up, !.use_kpi = TRUE, !.batch_size = b] :
     up \in BOOLEAN, b \in 1..MaxBatch,
     o \in {oo \in OutputProfiles(m.n_times) : ~IsNone(oo.selected_times)}}
  \cup
  {[WithOutput(ExpectedOutcomeDefaults, o) EXCEPT
      !.use_kpi = TRUE, !.batch_size = 2] : o \in OutputProfiles(m.n_times)}
  \cup
  {[WithScale(WithOutput(ExpectedOutcomeDefaults, NoSelection), sc) EXCEPT
      !.new_data = nd, !.batch_size = 2] :
     nd \in {None, Some(NewExecution(m, m.n_media_times))},
     sc \in OutcomeScales}

\* (scaling_factor0, scaling_factor1)
ScalingFactors == {<<Zero, One>>, <<Zero, R(2)>>, <<Rat(1, 2), One>>}

MediaSelections(m) ==
  {None, Some(BoolList(AltMask(m.n_media_times))), Some(StrList(<<"t2">>)),
   Some(<<>>)}

BaselineChoices ==
  {None, Some(<<BaselineMax>>), Some(<<BaselineFloat(R(3))>>)}

IncrementalOutcomeDefaults ==
  [use_posterior |-> TRUE, new_data |-> None,
   non_media_baseline_values |-> None,
   scaling_factor0 |-> Zero, scaling_factor1 |-> One,
   selected_geos |-> None, selected_times |-> None,
   media_selected_times |-> None,
   aggregate_geos |-> TRUE, aggregate_times |-> TRUE,
   inverse_transform_outcome |-> TRUE, use_kpi |-> FALSE,
   include_non_paid_channels |-> TRUE, batch_size |-> 100]

\* New data with a time axis one period longer than the model's, for
\* every tensor incremental_outcome requires.
LongerData(m) ==
  [NewExecution(m, m.n_media_times + 1) EXCEPT
     !.revenue_per_kpi =
        Some(RevenuePerKpiTensor(m.n_geos, m.n_media_times + 1))]

\* New data for every tensor of the model, all with nt time periods.
CompleteData(m, nt) ==
  [NewExecution(m, nt) EXCEPT
     !.non_media_treatments =
        IF IsNone(m.non_media_treatments) THEN None
        ELSE Some(Tensor3(2, m.n_geos, nt, m.n_non_media_channels)),
     !.revenue_per_kpi = Some(RevenuePerKpiTensor(m.n_geos, nt))]

\* Calls with complete new data one period longer than the model's and
\* selections that are not given or boolean masks of the new length.
CompleteDataCalls(m) ==
  {[IncrementalOutcomeDefaults EXCEPT
      !.new_data = Some(CompleteData(m, m.n_media_times + 1)),
      !.selected_times = st, !.media_selected_times = mst,
      !.use_kpi = uk, !.batch_size = 1] :
     st \in {None, Some(BoolList(AltMask(m.n_media_times + 1)))},
     mst \in {None, Some(BoolList(AltMask(m.n_media_times + 1)))},
     uk \in BOOLEAN}

\* Arguments of incremental_outcome: the scenarios, the batches, the
\* outputs.
IncrementalOutcomeArgs(m) ==
  CompleteDataCalls(m) \cup
  {[WithOutput(IncrementalOutcomeDefaults, NoSelection) EXCEPT
      !.scaling_factor0 = sf[1], !.scaling_factor1 = sf[2],
      !.media_selected_times = mst, !.non_media_baseline_values = bl,
      !.inverse_transform_outcome = FALSE, !.use_kpi = TRUE,
      !.batch_size = 2] :
     sf \in ScalingFactors, mst \in MediaSelections(m),
     bl \in BaselineChoices}
  \cup
  {[IncrementalOutcomeDefaults EXCEPT
      !.use_posterior = up,
      !.scaling_factor0 = sf[1], !.scaling_factor1 = sf[2],
      !.selected_geos = Some(<<"g1">>),
      !.selected_times = Some(BoolList(AltMask(m.n_times))),
      !.aggregate_geos = FALSE, !.use_kpi = TRUE, !.batch_size = b] :
     up \in BOOLEAN, sf \in {<<Zero, One>>, <<Rat(1, 2), One>>},
     b \in 1..MaxBatch}
  \cup
  {[WithScale(WithOutput(IncrementalOutcomeDefaults, o), sc) EXCEPT
      !.batch_size = 1] :
     o \in OutputProfiles(m.n_times), sc \in OutcomeScales}
  \cup
  {[WithOutput(IncrementalOutcomeDefaults, o) EXCEPT
      !.new_data = Some(LongerData(m)),
      !.selected_times =
         IF IsNone(o.selected_times) THEN None
         ELSE Some(BoolList(AltMask(m.n_media_times + 1))),
      !.include_non_paid_channels = np, !.batch_size = 1] :
     o \in OutputProfiles(m.n_times), np \in BOOLEAN}
  \cup
  {[WithScale(WithOutput(IncrementalOutcomeDefaults, NoSelection), sc) EXCEPT
      !.include_non_paid_channels = FALSE,
      !.scaling_factor0 = Rat(1, 2), !.batch_size = 3] :
     sc \in OutcomeScales}
  \cup
  {[IncrementalOutcomeDefaults EXCEPT
      !.scaling_factor0 = Rat(1, 2), !.selected_times = st,
      !.use_kpi = TRUE, !.batch_size = 2] :
     st \in {None, Some(BoolList(AltMask(m.n_times)))}}

(***************************************************************************)
(* The state machine: a model is constructed, its prior and posterior      *)
(* draws are sampled, and one analysis operation is called on it.          *)
(***************************************************************************)
NoCall == [op |-> "none"]
NoResult == [err |-> "pending"]

Init ==
  /\ mmm \in {NewModel(sh, n) : sh \in ModelShapes, n \in 1..MaxDraws}
  /\ call = NoCall
  /\ res = NoResult

\* Meridian.sample_prior
SamplePrior ==
  /\ call = NoCall
  /\ "prior" \notin mmm.groups
  /\ mmm' = [mmm EXCEPT !.groups = @ \cup {"prior"},
                        !.prior = Draws(mmm.n_draws, 1, mmm.n_geos,
                                        mmm.n_times)]
  /\ UNCHANGED <<call, res>>

\* Meridian.sample_posterior
SamplePosterior ==
  /\ call = NoCall
  /\ "posterior" \notin mmm.groups
  /\ mmm' = [mmm EXCEPT !.groups = @ \cup {"posterior"},
                        !.posterior = Draws(mmm.n_draws, 0, mmm.n_geos,
                                            mmm.n_times)]
  /\ UNCHANGED <<call, res>>

CallExpectedOutcome ==
  /\ call = NoCall
  /\ \E a \in ExpectedOutcomeArgs(mmm) :
       /\ call' = [op |-> "expected_outcome", a |-> a]
       /\ res' = ExpectedOutcome(mmm, a)
  /\ UNCHANGED mmm

CallIncrementalOutcome ==
  /\ call = NoCall
  /\ \E a \in IncrementalOutcomeArgs(mmm) :
       /\ call' = [op |-> "incremental_outcome", a |-> a]
       /\ res' = IncrementalOutcome(mmm, a)
  /\ UNCHANGED mmm

Next ==
  \/ SamplePrior
  \/ SamplePosterior
  \/ CallExpectedOutcome
  \/ CallIncrementalOutcome

Spec == Init /\ [][Next]_vars

(***************************************************************************)
(* Batching.                                                               *)
(***************************************************************************)
\* The model with draw i as the only draw of the group.
OnlyDraw(m, use_posterior, i) ==
  IF use_posterior THEN [m EXCEPT !.posterior = <<@[i]>>]
  ELSE [m EXCEPT !.prior = <<@[i]>>]

\* The operation the state records, called again with batch size b.
Recall(b) ==
  IF call.op = "expected_outcome"
  THEN ExpectedOutcome(mmm, [call.a EXCEPT !.batch_size = b])
  ELSE IncrementalOutcome(mmm, [call.a EXCEPT !.batch_size = b])

Computed(op) == call.op = op /\ res.err = "none"

C3_BatchRanges ==
  (Computed("expected_outcome") \/ Computed("incremental_outcome")) =>
    LET N == Len(Params(mmm, call.a.use_posterior))
        B == call.a.batch_size
        K == Len(res.ranges)
    IN /\ K * B >= N /\ (K - 1) * B < N
       /\ \A k \in 1..K :
            /\ res.ranges[k][1] = (k - 1) * B
            /\ res.ranges[k][2] = (IF k * B < N THEN k * B ELSE N)
            /\ res.ranges[k][2] - res.ranges[k][1] \in 1..B
            /\ k < K => res.ranges[k][2] = res.ranges[k + 1][1]
       /\ res.ranges[1][1] = 0
       /\ res.ranges[K][2] = N
       /\ Computed("expected_outcome") => Len(res.outcome_means) = N
       /\ Computed("incremental_outcome") => Len(res.val) = N

\* Three draws were processed in two batches, the last one short.
C3_Witness ==
  /\ Computed("expected_outcome")
  /\ call.a.batch_size = 2
  /\ res.ranges = <<<<0, 2>>, <<2, 3>>>>

(***************************************************************************)
(* Profitability metrics: roi, marginal_roi, cpik, response_curves.        *)
(***************************************************************************)
RECURSIVE TDivideNoNan(_, _, _)
TDivideNoNan(a, b, rank) ==
  IF rank = 0 THEN DivideNoNan(a, b)
  ELSE AsSeq([i \in 1..Len(a) |-> TDivideNoNan(a[i], b[i], rank - 1)])

RECURSIVE TReciprocal(_, _)
\* tf.math.divide_no_nan(1.0, a)
TReciprocal(a, rank) ==
  IF rank = 0 THEN DivideNoNan(One, a)
  ELSE AsSeq([i \in 1..Len(a) |-> TReciprocal(a[i], rank - 1)])

\* _check_spend_shape_matches: TRUE when it raises. A spend tensor is held
\* with geo, time and channel axes.
CheckSpendShapeRaises(spend, shape3) ==
  ~IsNone(spend) /\ Shape3(Get(spend)) # shape3

\* _get_performance_tensors. The spend of the model has the geo and the
\* time dimension, so its four dimension checks pass.
GetPerformanceTensors(m, new_data) ==
  LET err ==
        \/ CheckShapeMatchesRaises(new_data.media, m.media)
        \/ CheckSpendShapeRaises(new_data.media_spend,
                                 <<m.n_geos, m.n_times, m.n_media_channels>>)
        \/ CheckShapeMatchesRaises(new_data.reach, m.reach)
        \/ CheckShapeMatchesRaises(new_data.frequency, m.frequency)
        \/ CheckSpendShapeRaises(new_data.rf_spend,
                                 <<m.n_geos, m.n_times, m.n_rf_channels>>)
  IN [err |-> IF err THEN "shape" ELSE "none",
      media |-> NewOr(new_data.media, m.media),
      media_spend |-> NewOr(new_data.media_spend, m.media_spend),
      reach |-> NewOr(new_data.reach, m.reach),
      frequency |-> NewOr(new_data.frequency, m.frequency),
      rf_spend |-> NewOr(new_data.rf_spend, m.rf_spend)]

\* PerformanceData.total_spend
TotalSpend(p) ==
  IF ~IsNone(p.media_spend) /\ ~IsNone(p.rf_spend)
  THEN Some(ConcatChannels(<<Get(p.media_spend), Get(p.rf_spend)>>,
                           NGeo(Get(p.media_spend)), NTime(Get(p.media_spend))))
  ELSE IF ~IsNone(p.media_spend) THEN p.media_spend
  ELSE p.rf_spend

\* _scale_tensors_by_multiplier, as the DataTensors built from its result.
ScaleTensorsByMultiplier(media, reach, frequency, multiplier, by_reach) ==
  LET both == ~IsNone(reach) /\ ~IsNone(frequency)
      Times(x) == Some(Map3(Get(x), LAMBDA v : RMul(v, multiplier)))
  IN [EmptyData EXCEPT
        !.media = IF IsNone(media) THEN None ELSE Times(media),
        !.reach = IF ~both THEN None
                  ELSE IF by_reach THEN Times(reach) ELSE reach,
        !.frequency = IF ~both THEN None
                      ELSE IF by_reach THEN frequency ELSE Times(frequency)]

\* The incremental_outcome call that roi and marginal_roi make with the
\* execution tensors `data`.
ProfitabilityOutcome(m, a, data) ==
  IncrementalOutcome(m,
    [IncrementalOutcomeDefaults EXCEPT
       !.new_data = Some(data),
       !.inverse_transform_outcome = TRUE,
       !.use_posterior = a.use_posterior, !.use_kpi = a.use_kpi,
       !.batch_size = a.batch_size, !.include_non_paid_channels = FALSE,
       !.selected_geos = a.selected_geos,
       !.selected_times = a.selected_times,
       !.aggregate_geos = a.aggregate_geos, !.aggregate_times = TRUE])

\* The denominator of roi and marginal_roi: the spend, filtered and
\* aggregated as the call asks.
SpendDenominator(m, a, spend) ==
  FilterAndAggregateGeosAndTimes(m, spend, Shape3(spend), a.selected_geos,
    a.selected_times, a.aggregate_geos, TRUE, FALSE, TRUE)

\* numerator / denominator, the denominator broadcast over the draws.
DivideByDraw(numerator, denominator, rank) ==
  AsSeq([i \in 1..Len(numerator) |->
     TDivideNoNan(numerator[i], denominator, rank)])

ProfitabilityFailed(e) == [err |-> e, val |-> <<>>, shape |-> <<>>]

\* The execution tensors roi and marginal_roi hand to incremental_outcome.
PerformanceNewData(performance_tensors, new_data) ==
  [EmptyData EXCEPT
     !.media = performance_tensors.media,
     !.reach = performance_tensors.reach,
     !.frequency = performance_tensors.frequency,
     !.revenue_per_kpi = new_data.revenue_per_kpi]

RoiResult(performance_tensors, incremental_outcome, denominator) ==
  IF performance_tensors.err # "none"
  THEN ProfitabilityFailed(performance_tensors.err)
  ELSE IF incremental_outcome.err # "none"
  THEN ProfitabilityFailed(incremental_outcome.err)
  ELSE IF denominator.err # "none"
  THEN ProfitabilityFailed(denominator.err)
  ELSE [err |-> "none",
        val |-> DivideByDraw(incremental_outcome.val, denominator.val,
                             Len(denominator.shape)),
        shape |-> incremental_outcome.shape]

RoiWithTensors(m, a, new_data, performance_tensors) ==
  RoiResult(performance_tensors,
    ProfitabilityOutcome(m, a,
      PerformanceNewData(performance_tensors, new_data)),
    SpendDenominator(m, a, Get(TotalSpend(performance_tensors))))

RoiOn(m, a, new_data) ==
  RoiWithTensors(m, a, new_data, GetPerformanceTensors(m, new_data))

\* Analyzer.roi.
\* a: [use_posterior, new_data, selected_geos, selected_times,
\*     aggregate_geos, use_kpi, batch_size]
Roi(m, a) ==
  IF CheckRevenueDataExistsRaises(m, a.use_kpi)
  THEN ProfitabilityFailed("revenue_data")
  ELSE RoiOn(m, a, IF IsNone(a.new_data) THEN EmptyData ELSE Get(a.new_data))

\* outcomes: incremental_outcome of the tensors as they are, then of the
\* incremented tensors.
MarginalRoiResult(performance_tensors, outcomes, denominator) ==
  IF performance_tensors.err # "none"
  THEN ProfitabilityFailed(performance_tensors.err)
  ELSE IF outcomes[1].err # "none"
  THEN ProfitabilityFailed(outcomes[1].err)
  ELSE IF outcomes[2].err # "none"
  THEN ProfitabilityFailed(outcomes[2].err)
  ELSE IF denominator.err # "none"
  THEN ProfitabilityFailed(denominator.err)
  ELSE [err |-> "none",
        val |-> DivideByDraw(
                  TSub(outcomes[2].val, outcomes[1].val,
                       Len(outcomes[1].shape)),
                  denominator.val, Len(denominator.shape)),
        shape |-> outcomes[1].shape]

\* The two incremental_outcome calls of marginal_roi.
MarginalRoiOutcomes(m, a, datas) ==
  AsSeq([k \in 1..2 |-> ProfitabilityOutcome(m, a, datas[k])])

MarginalRoiWithTensors(m, a, new_data, performance_tensors) ==
  MarginalRoiResult(performance_tensors,
    MarginalRoiOutcomes(m, a,
      <<PerformanceNewData(performance_tensors, new_data),
        ScaleTensorsByMultiplier(performance_tensors.media,
          performance_tensors.reach, performance_tensors.frequency,
          RAdd(a.incremental_increase, One), a.by_reach)>>),
    SpendDenominator(m, a,
      Map3(Get(TotalSpend(performance_tensors)),
           LAMBDA v : RMul(v, a.incremental_increase))))

MarginalRoiOn(m, a, new_data) ==
  MarginalRoiWithTensors(m, a, new_data, GetPerformanceTensors(m, new_data))

\* Analyzer.marginal_roi.
\* a: the arguments of roi, incremental_increase and by_reach.
MarginalRoi(m, a) ==
  IF CheckRevenueDataExistsRaises(m, a.use_kpi)
  THEN ProfitabilityFailed("revenue_data")
  ELSE MarginalRoiOn(m, a,
         IF IsNone(a.new_data) THEN EmptyData ELSE Get(a.new_data))

\* The ROI handed back as it is.
CpikOfUninverted(roi) == roi

\* tf.math.divide_no_nan(1.0, roi) when roi returned.
CpikOf(roi) ==
  IF roi.err # "none" THEN roi
  ELSE [roi EXCEPT !.val = TReciprocal(roi.val, Len(roi.shape))]

\* Analyzer.cpik: 1 / roi(use_kpi=True).
\* a: [use_posterior, new_data, selected_geos, selected_times,
\*     aggregate_geos, batch_size]
Cpik(m, a) ==
  CpikOf(Roi(m, [use_posterior |-> a.use_posterior,
                 new_data |-> a.new_data,
                 selected_geos |-> a.selected_geos,
                 selected_times |-> a.selected_times,
                 aggregate_geos |-> a.aggregate_geos,
                 use_kpi |-> TRUE, batch_size |-> a.batch_size]))

\* Linear interpolation between the order statistics lo + 1 and lo + 2 of
\* the n sorted values, at the position h.
QuantileBetween(sorted, n, h, lo) ==
  IF lo + 1 >= n THEN sorted[n]
  ELSE RAdd(sorted[lo + 1],
            RMul(RSub(h, R(lo)), RSub(sorted[lo + 2], sorted[lo + 1])))

QuantileAt(sorted, n, h) == QuantileBetween(sorted, n, h, h[1] \div h[2])

\* np.quantile(xs, q) of a non-empty sequence, by linear interpolation
\* between the order statistics.
Quantile(xs, q) ==
  QuantileAt(SortSeq(xs, LAMBDA x, y : RLt(x, y)), Len(xs),
             RMul(q, R(Len(xs) - 1)))

\* mean, ci_lo and ci_hi of the values xs.
CentralTendencyAndCi(xs, confidence_level) ==
  <<RDiv(RSum(xs), R(Len(xs))),
    Quantile(xs, RDiv(RSub(One, confidence_level), R(2))),
    Quantile(xs, RDiv(RAdd(One, confidence_level), R(2)))>>

\* get_central_tendency_and_ci over the draw axis of a (draw, channel)
\* tensor: mean, ci_lo and ci_hi for each channel.
GetCentralTendencyAndCi(data, n_channels, confidence_level) ==
  AsSeq([c \in 1..n_channels |->
     CentralTendencyAndCi(AsSeq([i \in 1..Len(data) |-> data[i][c]]),
                          confidence_level)])

\* list(np.arange(0, 2.2, 0.2))
DefaultSpendMultipliers == AsSeq([k \in 1..11 |-> Rat(k - 1, 5)])

\* The number of paid channels.
NPaidChannels(m) == m.n_media_channels + m.n_rf_channels

\* The loop of response_curves over the spend multipliers: a multiplier of
\* 0 is skipped, every other one is an incremental_outcome call.
ResponseCurvesCallsOf(m, a, spend_multipliers) ==
  AsSeq([i \in 1..Len(spend_multipliers) |->
     IF spend_multipliers[i] = Zero THEN [err |-> "skipped"]
     ELSE IncrementalOutcome(m,
            [IncrementalOutcomeDefaults EXCEPT
               !.use_posterior = a.use_posterior,
               !.new_data = Some(ScaleTensorsByMultiplier(m.media,
                  m.reach, m.frequency, spend_multipliers[i],
                  a.by_reach)),
               !.inverse_transform_outcome = TRUE,
               !.batch_size = a.batch_size,
               !.use_kpi = IsNone(m.revenue_per_kpi),
               !.include_non_paid_channels = FALSE,
               !.selected_geos = a.selected_geos,
               !.selected_times = a.selected_times,
               !.aggregate_geos = TRUE, !.aggregate_times = TRUE])])

\* The spend of the paid channels of the model.
HistoricalSpend(m) ==
  IF m.n_media_channels > 0 /\ m.n_rf_channels > 0
  THEN ConcatChannels(<<Get(m.media_spend), Get(m.rf_spend)>>,
                      m.n_geos, m.n_times)
  ELSE IF m.n_media_channels > 0 THEN Get(m.media_spend)
  ELSE Get(m.rf_spend)

ResponseCurvesSpend(m, a, spend0) ==
  FilterAndAggregateGeosAndTimes(m, spend0, Shape3(spend0),
    a.selected_geos, a.selected_times, TRUE, TRUE, FALSE, TRUE)

\* The calls that ended in an error, and the first of them.
FailedCalls(calls) ==
  {i \in 1..Len(calls) : calls[i].err \notin {"skipped", "none"}}

FirstFailed(failed) == CHOOSE i \in failed : \A j \in failed : i <= j

\* mean, ci_lo and ci_hi per multiplier and channel; zeros where skipped.
ResponseCurvesOutcome(m, a, calls) ==
  AsSeq([i \in 1..Len(calls) |->
     IF calls[i].err = "skipped"
     THEN AsSeq([c \in 1..NPaidChannels(m) |-> <<Zero, Zero, Zero>>])
     ELSE GetCentralTendencyAndCi(calls[i].val, NPaidChannels(m),
                                  a.confidence_level)])

\* einsum "k,m->km" of the multipliers and the spend.
ResponseCurvesSpendEinsum(m, spend_multipliers, spend) ==
  AsSeq([k \in 1..Len(spend_multipliers) |->
     AsSeq([c \in 1..NPaidChannels(m) |->
        RMul(spend_multipliers[k], spend.val[c])])])

ResponseCurvesResult(m, a, spend_multipliers, calls, failed, spend, n_calls) ==
  IF failed # {}
  THEN [err |-> calls[FirstFailed(failed)].err, spend |-> <<>>,
        incremental_outcome |-> <<>>, n_calls |-> 0]
  ELSE IF spend.err # "none"
  THEN [err |-> spend.err, spend |-> <<>>,
        incremental_outcome |-> <<>>, n_calls |-> n_calls]
  ELSE [err |-> "none",
        spend |-> ResponseCurvesSpendEinsum(m, spend_multipliers, spend),
        incremental_outcome |-> ResponseCurvesOutcome(m, a, calls),
        n_calls |-> n_calls]

ResponseCurvesWithCalls(m, a, spend_multipliers, calls) ==
  ResponseCurvesResult(m, a, spend_multipliers, calls, FailedCalls(calls),
    ResponseCurvesSpend(m, a, HistoricalSpend(m)),
    Cardinality({i \in 1..Len(calls) : calls[i].err # "skipped"}))

ResponseCurvesOn(m, a, spend_multipliers) ==
  ResponseCurvesWithCalls(m, a, spend_multipliers,
    ResponseCurvesCallsOf(m, a, spend_multipliers))

\* Analyzer.response_curves for use_optimal_frequency = False.
\* a: [spend_multipliers, use_posterior, selected_geos, selected_times,
\*     by_reach, confidence_level, batch_size]
ResponseCurves(m, a) ==
  ResponseCurvesOn(m, a,
    IF IsNone(a.spend_multipliers) THEN DefaultSpendMultipliers
    ELSE Get(a.spend_multipliers))

(***************************************************************************)
(* The analysis calls with arguments of every kind, valid and invalid.     *)
(***************************************************************************)
\* The model shapes of Spec and a model with media and organic media only.
ValidationModelShapes ==
  ModelShapes \cup
  {[fams |-> {"media", "organic_media"}, n_geos |-> 1, n_lag |-> 1,
    kpi_type |-> "revenue", has_rpk |-> FALSE]}

\* Selection lists: valid names, an unknown name, a mask of the wrong
\* length, a list of mixed types, a list of neither type, the empty list.
TimeSelections(m) ==
  {None, Some(StrList(<<"t1">>)), Some(BoolList(AltMask(m.n_times))),
   Some(StrList(<<"t1", "t9">>)), Some(BoolList(<<TRUE>>)),
   Some(<<StrItem("t1"), BoolItem(TRUE)>>), Some(<<OtherItem, OtherItem>>),
   Some(<<>>)}

GeoSelections == {None, Some(<<"g1">>), Some(<<"g1", "g9">>)}

ScalingFactorPairs ==
  {<<Zero, One>>, <<Rat(1, 2), R(2)>>, <<One, R(2)>>,
   <<R(-1), One>>, <<Zero, R(-1)>>, <<R(-2), R(-1)>>,
   <<Zero, Zero>>, <<One, One>>, <<One, Rat(1, 2)>>}

BaselineLists ==
  {None, Some(<<BaselineMax>>), Some(<<BaselineFloat(R(3))>>),
   Some(<<BaselineBad>>), Some(<<BaselineMin, BaselineMax>>)}

\* The default call with use_kpi set so that the revenue check passes.
KpiDefaults(defaults, m) ==
  [defaults EXCEPT !.use_kpi = IsNone(m.revenue_per_kpi), !.batch_size = 1]

ExpectedOutcomeCalls(m) ==
  {[ExpectedOutcomeDefaults EXCEPT
      !.use_posterior = up, !.use_kpi = uk,
      !.inverse_transform_outcome = inv, !.batch_size = 1] :
     up \in BOOLEAN, uk \in BOOLEAN, inv \in BOOLEAN}
  \cup
  {[KpiDefaults(ExpectedOutcomeDefaults, m) EXCEPT
      !.selected_times = st, !.aggregate_times = FALSE] :
     st \in TimeSelections(m)}
  \cup
  {[KpiDefaults(ExpectedOutcomeDefaults, m) EXCEPT
      !.selected_geos = sg, !.batch_size = 2] : sg \in GeoSelections}

\* new_data with the execution families `at_new` at n_new time periods and
\* the families `at_old` at the historical number.
MixedData(m, at_new, at_old, n_new) ==
  LET new == [NewExecution(m, n_new) EXCEPT
                !.revenue_per_kpi =
                   Some(RevenuePerKpiTensor(m.n_geos, n_new))]
      old == [NewExecution(m, m.n_media_times) EXCEPT
                !.revenue_per_kpi =
                   Some(RevenuePerKpiTensor(m.n_geos, m.n_times))]
      Pick(f, fam) == IF fam \in at_new THEN new[f]
                      ELSE IF fam \in at_old THEN old[f] ELSE None
  IN [EmptyData EXCEPT
        !.media = Pick("media", "media"),
        !.reach = Pick("reach", "rf"),
        !.frequency = Pick("frequency", "rf"),
        !.organic_media = Pick("organic_media", "organic_media"),
        !.organic_reach = Pick("organic_reach", "organic_rf"),
        !.organic_frequency = Pick("organic_frequency", "organic_rf"),
        !.revenue_per_kpi = Pick("revenue_per_kpi", "revenue_per_kpi")]

\* The families new_data can carry for model m.
DataFamilies(m) ==
  {"revenue_per_kpi"}
  \cup (IF IsNone(m.media) THEN {} ELSE {"media"})
  \cup (IF IsNone(m.reach) THEN {} ELSE {"rf"})
  \cup (IF IsNone(m.organic_media) THEN {} ELSE {"organic_media"})
  \cup (IF IsNone(m.organic_reach) THEN {} ELSE {"organic_rf"})

NewTimeLengths == {1, 4}

MixedDataCalls(m) ==
  {[KpiDefaults(IncrementalOutcomeDefaults, m) EXCEPT
      !.new_data = Some(MixedData(m, at_new, at_old, n_new)),
      !.use_kpi = uk,
      !.selected_times = sel[1], !.media_selected_times = sel[2],
      !.include_non_paid_channels = np] :
     at_new \in SUBSET DataFamilies(m) \ {{}},
     at_old \in SUBSET DataFamilies(m),
     n_new \in NewTimeLengths, uk \in BOOLEAN, np \in BOOLEAN,
     sel \in {<<None, None>>, <<Some(StrList(<<"t1">>)), None>>,
              <<None, Some(StrList(<<"t1">>))>>, <<Some(<<>>), None>>}}

IncrementalOutcomeCalls(m) ==
  {[IncrementalOutcomeDefaults EXCEPT
      !.use_posterior = up, !.use_kpi = uk,
      !.inverse_transform_outcome = inv, !.batch_size = 1] :
     up \in BOOLEAN, uk \in BOOLEAN, inv \in BOOLEAN}
  \cup
  {[KpiDefaults(IncrementalOutcomeDefaults, m) EXCEPT
      !.scaling_factor0 = sf[1], !.scaling_factor1 = sf[2]] :
     sf \in ScalingFactorPairs}
  \cup
  {[KpiDefaults(IncrementalOutcomeDefaults, m) EXCEPT
      !.selected_times = st, !.aggregate_times = FALSE] :
     st \in TimeSelections(m)}
  \cup
  {[KpiDefaults(IncrementalOutcomeDefaults, m) EXCEPT
      !.media_selected_times = st] : st \in TimeSelections(m)}
  \cup
  {[KpiDefaults(IncrementalOutcomeDefaults, m) EXCEPT
      !.selected_geos = sg, !.batch_size = 2] : sg \in GeoSelections}
  \cup
  {[KpiDefaults(IncrementalOutcomeDefaults, m) EXCEPT
      !.non_media_baseline_values = bl, !.include_non_paid_channels = np] :
     bl \in BaselineLists, np \in BOOLEAN}
  \cup
  (IF m.groups = {"posterior"} THEN MixedDataCalls(m) ELSE {})

RoiDefaults ==
  [use_posterior |-> TRUE, new_data |-> None, selected_geos |-> None,
   selected_times |-> None, aggregate_geos |-> TRUE, use_kpi |-> FALSE,
   batch_size |-> 100]

RoiCalls(m) ==
  {[RoiDefaults EXCEPT !.use_posterior = up, !.use_kpi = uk,
                       !.aggregate_geos = ag, !.batch_size = 2] :
     up \in BOOLEAN, uk \in BOOLEAN, ag \in BOOLEAN}
  \cup
  {[KpiDefaults(RoiDefaults, m) EXCEPT
      !.selected_times = st, !.selected_geos = sg] :
     st \in {Some(StrList(<<"t1">>)), Some(StrList(<<"t9">>))},
     sg \in GeoSelections}
  \cup
  {[KpiDefaults(RoiDefaults, m) EXCEPT
      !.new_data = Some([EmptyData EXCEPT
         !.media_spend = Some(Tensor3(2, m.n_geos, n, 1)),
         !.rf_spend = Some(Tensor3(2, m.n_geos, m.n_times, 1))])] :
     n \in {m.n_times, m.n_times + 1}}

\* The calls of roi, and calls with a new revenue_per_kpi of 5 at every
\* geo and time.
MarginalRoiCalls(m) ==
  {[incremental_increase |-> Rat(1, 2), by_reach |-> br] @@ a :
     br \in BOOLEAN, a \in RoiCalls(m)}
  \cup
  {[incremental_increase |-> Rat(1, 2), by_reach |-> br] @@
   [RoiDefaults EXCEPT
      !.new_data = Some([EmptyData EXCEPT !.revenue_per_kpi =
        Some(Map2(OnesTensor2(m.n_geos, m.n_times), LAMBDA v : R(5)))]),
      !.aggregate_geos = ag, !.batch_size = 2] :
     br \in BOOLEAN, ag \in BOOLEAN}

CpikCalls(m) ==
  {[use_posterior |-> a.use_posterior, new_data |-> a.new_data,
    selected_geos |-> a.selected_geos, selected_times |-> a.selected_times,
    aggregate_geos |-> a.aggregate_geos, batch_size |-> a.batch_size] :
     a \in RoiCalls(m)}

ResponseCurvesCalls(m) ==
  {[spend_multipliers |-> sm, use_posterior |-> up, selected_geos |-> None,
    selected_times |-> st, by_reach |-> br, confidence_level |-> Rat(9, 10),
    batch_size |-> 2] :
     sm \in {Some(<<>>), Some(<<Zero>>), Some(<<Zero, One>>),
             Some(<<Rat(1, 2), R(2)>>)},
     up \in BOOLEAN, br \in BOOLEAN,
     st \in {None, Some(StrList(<<"t2">>)), Some(StrList(<<"t9">>))}}
  \cup
  {[spend_multipliers |-> None, use_posterior |-> TRUE,
    selected_geos |-> Some(<<"g1">>), selected_times |-> None,
    by_reach |-> TRUE, confidence_level |-> Rat(1, 2), batch_size |-> 100]}

(***************************************************************************)
(* SpecValidation: a model, fitted or not, receives one analysis call.     *)
(***************************************************************************)
InitValidation ==
  /\ mmm \in {NewModel(sh, 2) : sh \in ValidationModelShapes}
  /\ call = NoCall
  /\ res = NoResult

TryExpectedOutcome ==
  /\ call = NoCall
  /\ \E a \in ExpectedOutcomeCalls(mmm) :
       /\ call' = [op |-> "expected_outcome", a |-> a]
       /\ res' = ExpectedOutcome(mmm, a)
  /\ UNCHANGED mmm

TryIncrementalOutcome ==
  /\ call = NoCall
  /\ \E a \in IncrementalOutcomeCalls(mmm) :
       /\ call' = [op |-> "incremental_outcome", a |-> a]
       /\ res' = IncrementalOutcome(mmm, a)
  /\ UNCHANGED mmm

CallRoi ==
  /\ call = NoCall
  /\ \E a \in RoiCalls(mmm) :
       /\ call' = [op |-> "roi", a |-> a]
       /\ res' = Roi(mmm, a)
  /\ UNCHANGED mmm

CallMarginalRoi ==
  /\ call = NoCall
  /\ \E a \in MarginalRoiCalls(mmm) :
       /\ call' = [op |-> "marginal_roi", a |-> a]
       /\ res' = MarginalRoi(mmm, a)
  /\ UNCHANGED mmm

CallCpik ==
  /\ call = NoCall
  /\ \E a \in CpikCalls(mmm) :
       /\ call' = [op |-> "cpik", a |-> a]
       /\ res' = Cpik(mmm, a)
  /\ UNCHANGED mmm

CallResponseCurves ==
  /\ call = NoCall
  /\ \E a \in ResponseCurvesCalls(mmm) :
       /\ call' = [op |-> "response_curves", a |-> a]
       /\ res' = ResponseCurves(mmm, a)
  /\ UNCHANGED mmm

NextValidation ==
  \/ SamplePrior
  \/ SamplePosterior
  \/ TryExpectedOutcome
  \/ TryIncrementalOutcome
  \/ CallRoi
  \/ CallMarginalRoi
  \/ CallCpik
  \/ CallResponseCurves

SpecValidation == InitValidation /\ [][NextValidation]_vars

(***************************************************************************)
(* The scenarios of incremental_outcome.                                   *)
(***************************************************************************)
ExecutionFamilies == {"media", "reach", "organic_media", "organic_reach"}

\* Scenario tensor `scen` is tensor `input` times sf at the selected times
\* and `input` itself at the others.
ScaledWhereSelected(scen, input, sf, mask) ==
  /\ Shape3(scen) = Shape3(input)
  /\ Len(mask) = NTime(input)
  /\ \A g \in 1..NGeo(input), t \in 1..NTime(input), c \in 1..NChan(input) :
       scen[g][t][c] = IF mask[t] THEN RMul(input[g][t][c], sf)
                       ELSE input[g][t][c]

\* C4: in both scenarios media, reach, organic media and organic reach are
\* the input times the scenario's scaling factor at the periods selected by
\* media_selected_times and the input unchanged elsewhere; frequency and
\* organic frequency are the input in both scenarios.
C4_ScenarioScaling ==
  Computed("incremental_outcome") =>
    /\ \A f \in ExecutionFamilies :
         IF IsNone(res.data_tensors[f])
         THEN IsNone(res.new0[f]) /\ IsNone(res.new1[f])
         ELSE /\ ScaledWhereSelected(Get(res.new0[f]), Get(res.data_tensors[f]),
                                     call.a.scaling_factor0,
                                     res.media_selected_times)
              /\ ScaledWhereSelected(Get(res.new1[f]), Get(res.data_tensors[f]),
                                     call.a.scaling_factor1,
                                     res.media_selected_times)
    /\ \A f \in {"frequency", "organic_frequency"} :
         /\ res.new0[f] = res.data_tensors[f]
         /\ res.new1[f] = res.data_tensors[f]

\* Reach was scaled by a non-zero scaling_factor0 at some periods and left
\* alone at others.
C4_Witness ==
  /\ Computed("incremental_outcome")
  /\ ~IsNone(res.data_tensors.reach)
  /\ call.a.scaling_factor0 = Rat(1, 2)
  /\ \E t \in 1..Len(res.media_selected_times) : res.media_selected_times[t]
  /\ \E t \in 1..Len(res.media_selected_times) : ~res.media_selected_times[t]
  /\ res.new0.reach # res.new1.reach

(***************************************************************************)
(* The inverse transformation of an incremental outcome.                   *)
(***************************************************************************)
\* The scaled tensors of scenario k of the call the state records.
ScenarioTensors(k) ==
  GetScaledDataTensors(mmm, IF k = 0 THEN res.new0 ELSE res.new1,
                       call.a.include_non_paid_channels)

\* The modeled incremental KPI of scenario k for draw i.
ScenarioKpi(k, i) ==
  GetIncrementalKpi(mmm, ScenarioTensors(k),
                    Params(mmm, call.a.use_posterior)[i],
                    call.a.non_media_baseline_values)

\* The difference of the two scenarios on the modeled scale, transformed
\* once, then filtered and aggregated as the call asks.
InverseOfDifference ==
  LET n == Len(Params(mmm, call.a.use_posterior))
      inv == AsSeq([i \in 1..n |->
               InverseOutcome(mmm, Sub3(ScenarioKpi(1, i), ScenarioKpi(0, i)),
                              call.a.use_kpi,
                              res.data_tensors.revenue_per_kpi)])
  IN FilterAndAggregateGeosAndTimes(mmm, inv,
       <<n, mmm.n_geos, Len(inv[1][1]), Len(inv[1][1][1])>>,
       call.a.selected_geos, call.a.selected_times, call.a.aggregate_geos,
       call.a.aggregate_times, TRUE, TRUE).val

\* The modeled outcomes the state holds: the incremental KPIs of scenario 1.
ModeledValues ==
  {ScenarioKpi(1, 1)[g][t][c] :
     g \in 1..mmm.n_geos, t \in {1}, c \in {1}}
  \cup {Zero, One, R(-2), Rat(1, 3)}

\* C5: for modeled outcomes a and b, inverse(a) - inverse(b) is
\* _inverse_outcome(a - b); the incremental outcome that subtracts the two
\* inverse-transformed scenario results is the inverse transformation of
\* their modeled-scale difference; and the centering constant of the KPI
\* transform does not appear in an incremental outcome.
C5_InverseCommutes ==
  (Computed("incremental_outcome") /\ call.a.inverse_transform_outcome) =>
    /\ \A a \in ModeledValues, b \in ModeledValues :
         RSub(KpiInverse(mmm, a), KpiInverse(mmm, b))
           = InverseOutcomeValue(mmm, RSub(a, b))
    /\ res.scenario0_run => res.val = InverseOfDifference
    /\ IncrementalOutcome([mmm EXCEPT !.kpi_center = R(-7)], call.a).val
         = res.val

\* Both scenarios were evaluated, inverse-transformed to revenue, and the
\* result is not zero.
C5_Witness ==
  /\ Computed("incremental_outcome")
  /\ call.a.inverse_transform_outcome
  /\ ~call.a.use_kpi
  /\ res.scenario0_run
  /\ res.val # ZeroTensor(res.shape)

(***************************************************************************)
(* The incremental outcome as a difference of scenario outcomes.           *)
(***************************************************************************)
\* The channel families of the tensors, in the order of the channel axis.
ChannelFamilies(data_tensors) ==
  SelectSeq(<<"media", "reach", "organic_media", "organic_reach",
              "non_media_treatments">>,
            LAMBDA f : ~IsNone(data_tensors[f]))

\* For draw i, geo g, time t and channel c: the modeled outcome with the
\* channel as in scenario 1 minus the modeled outcome of scenario 0.
ScenarioOutcomeDifference(i) ==
  LET dt0 == ScenarioTensors(0)
      dt1 == ScenarioTensors(1)
      fams == ChannelFamilies(dt1)
      dist == Params(mmm, call.a.use_posterior)[i]
      base == GetKpiMeans(mmm, dt0, dist)
      with == AsSeq([c \in 1..Len(fams) |->
                GetKpiMeans(mmm, [dt0 EXCEPT ![fams[c]] = dt1[fams[c]]], dist)])
  IN AsSeq([g \in 1..mmm.n_geos |-> AsSeq([t \in 1..mmm.n_times |->
       AsSeq([c \in 1..Len(fams) |-> RSub(with[c][g][t], base[g][t])])])])

\* The calls whose result is on the modeled scale, per geo and time.
ModeledScaleCall ==
  /\ Computed("incremental_outcome")
  /\ ~call.a.inverse_transform_outcome
  /\ IsNone(call.a.new_data)
  /\ IsNone(call.a.selected_geos) /\ IsNone(call.a.selected_times)
  /\ ~call.a.aggregate_geos /\ ~call.a.aggregate_times

\* C2: incremental_outcome returns, for every channel and draw, the modeled
\* outcome under scenario 1 minus the modeled outcome under scenario 0,
\* whatever scaling_factor0, media_selected_times and the non-media
\* baseline are.
C2_ScenarioDifference ==
  ModeledScaleCall =>
    \A i \in 1..Len(res.val) : res.val[i] = ScenarioOutcomeDifference(i)

(***************************************************************************)
(* Validation of the arguments.                                            *)
(***************************************************************************)
\* The call passes the revenue, transformation and fitted checks.
ReachesValidation ==
  /\ call.a.use_kpi \/ ~IsNone(mmm.revenue_per_kpi)
  /\ call.a.use_kpi \/ call.a.inverse_transform_outcome
  /\ (IF call.a.use_posterior THEN "posterior" ELSE "prior") \in mmm.groups

\* C6: incremental_outcome rejects every pair of scaling factors that does
\* not satisfy scaling_factor1 > scaling_factor0 >= 0 and accepts every
\* pair that does: with the other arguments at their defaults the call
\* returns.
C6_ScalingFactorValidation ==
  (call.op = "incremental_outcome" /\ ReachesValidation) =>
    LET sf0 == call.a.scaling_factor0
        sf1 == call.a.scaling_factor1
        satisfied == RLt(sf0, sf1) /\ RLeq(Zero, sf0)
    IN /\ ~satisfied => res.err = "scaling_factor"
       /\ satisfied => res.err # "scaling_factor"
       /\ (/\ satisfied
           /\ IsNone(call.a.new_data)
           /\ IsNone(call.a.selected_times)
           /\ IsNone(call.a.selected_geos)
           /\ IsNone(call.a.media_selected_times)
           /\ IsNone(call.a.non_media_baseline_values))
            => res.err = "none" /\ Len(res.val) = mmm.n_draws

\* Equal scaling factors were rejected on a fitted model.
C6_Witness ==
  /\ call.op = "incremental_outcome"
  /\ ReachesValidation
  /\ call.a.scaling_factor0 = One /\ call.a.scaling_factor1 = One
  /\ res.err = "scaling_factor"

\* C7: expected_outcome, incremental_outcome, roi and marginal_roi raise
\* when use_kpi = False and the model has no revenue_per_kpi; and
\* expected_outcome and incremental_outcome raise when
\* inverse_transform_outcome = False and use_kpi = False.
C7_RevenueRequestsRejected ==
  /\ (/\ call.op \in {"expected_outcome", "incremental_outcome", "roi",
                      "marginal_roi"}
      /\ ~call.a.use_kpi
      /\ IsNone(mmm.revenue_per_kpi))
       => res.err = "revenue_data"
  /\ (/\ call.op \in {"expected_outcome", "incremental_outcome"}
      /\ ~call.a.inverse_transform_outcome
      /\ ~call.a.use_kpi)
       => res.err \in {"revenue_data", "kpi_transformation"}

\* A fitted model with revenue_per_kpi was asked for the modeled scale in
\* revenue terms.
C7_Witness ==
  /\ call.op = "expected_outcome"
  /\ ~call.a.inverse_transform_outcome /\ ~call.a.use_kpi
  /\ ~IsNone(mmm.revenue_per_kpi)
  /\ "posterior" \in mmm.groups /\ call.a.use_posterior
  /\ res.err = "kpi_transformation"

\* C8: an analysis operation asked to use a draw group that the inference
\* data lacks ends in an error, whatever its other arguments are.
C8_NotFittedSurfaced ==
  (/\ call.op \in {"expected_outcome", "incremental_outcome", "roi",
                   "marginal_roi", "cpik", "response_curves"}
   /\ (IF call.a.use_posterior THEN "posterior" ELSE "prior")
        \notin mmm.groups)
    => res.err # "none"

\* A selection list naming a coordinate that the axis does not have.
UnknownTime(l) ==
  ~IsNone(l) /\ \E i \in 1..Len(Get(l)) :
     Get(l)[i].kind = "str" /\ Get(l)[i].s \notin Range(mmm.time)

UnknownGeo(l) ==
  ~IsNone(l) /\ \E i \in 1..Len(Get(l)) : Get(l)[i] \notin Range(mmm.geo)

WrongLengthMask(l) ==
  /\ ~IsNone(l)
  /\ \A i \in 1..Len(Get(l)) : Get(l)[i].kind = "bool"
  /\ Len(Get(l)) \notin {0, mmm.n_times}

MixedList(l) ==
  ~IsNone(l) /\ \E i, j \in 1..Len(Get(l)) :
     Get(l)[i].kind = "str" /\ Get(l)[j].kind = "bool"

UnsupportedToken(l) ==
  ~IsNone(l) /\ \E i \in 1..Len(Get(l)) : Get(l)[i].kind = "bad"

InvalidArguments ==
  /\ call.op \in {"expected_outcome", "incremental_outcome"}
  /\ IsNone(call.a.new_data)
  /\ \/ UnknownTime(call.a.selected_times)
     \/ UnknownGeo(call.a.selected_geos)
     \/ WrongLengthMask(call.a.selected_times)
     \/ MixedList(call.a.selected_times)
     \/ /\ call.op = "incremental_outcome"
        /\ \/ ~RLt(call.a.scaling_factor0, call.a.scaling_factor1)
           \/ RLt(call.a.scaling_factor0, Zero)
           \/ UnsupportedToken(call.a.non_media_baseline_values)

\* C9: an invalid argument of expected_outcome or incremental_outcome
\* raises its error before the outcome of any draw batch is computed.
C9_NoPartialComputation ==
  InvalidArguments => res.err # "none" /\ res.batches_done = 0

\* The families whose tensors the model requires of new_data.
RequiredFields ==
  (IF IsNone(mmm.media) THEN {} ELSE {"media"})
  \cup (IF IsNone(mmm.reach) THEN {} ELSE {"reach", "frequency"})
  \cup (IF IsNone(mmm.organic_media) THEN {} ELSE {"organic_media"})
  \cup (IF IsNone(mmm.organic_reach) THEN {}
        ELSE {"organic_reach", "organic_frequency"})
  \cup (IF call.a.use_kpi THEN {} ELSE {"revenue_per_kpi"})

\* The numbers of time periods of the supplied required tensors that are
\* not the historical number.
NewLengths ==
  {NTime(Get(Get(call.a.new_data)[f])) :
     f \in {h \in RequiredFields :
              /\ ~IsNone(Get(call.a.new_data)[h])
              /\ NTime(Get(Get(call.a.new_data)[h]))
                   # (IF h = "revenue_per_kpi" THEN mmm.n_times
                      ELSE mmm.n_media_times)}}

FlexibleTimeRuleMet ==
  /\ \E n \in NewLengths :
       \A f \in RequiredFields :
          /\ ~IsNone(Get(call.a.new_data)[f])
          /\ NTime(Get(Get(call.a.new_data)[f])) = n
  /\ ~NonEmptyNotBool(call.a.selected_times)
  /\ ~NonEmptyNotBool(call.a.media_selected_times)

\* C10: incremental_outcome rejects every call in which a required tensor
\* of new_data has a number of time periods other than the historical one,
\* unless all required tensors are supplied with that number and every
\* non-empty time selection is boolean.
C10_FlexibleTimeRule ==
  (/\ call.op = "incremental_outcome"
   /\ ~IsNone(call.a.new_data)
   /\ NewLengths # {}
   /\ ~FlexibleTimeRuleMet)
    => res.err # "none"

(***************************************************************************)
(* Geo and time selections.                                                *)
(***************************************************************************)
\* The selection is a list of booleans as long as the axis, or a list of
\* strings that are all coordinates of the axis (or it is not given).
TimeSelectionValid(l, coords, n) ==
  \/ IsNone(l)
  \/ IsBoolList(Get(l)) /\ Len(Get(l)) = n
  \/ IsStrList(Get(l))
       /\ \A i \in 1..Len(Get(l)) : Get(l)[i].s \in Range(coords)

GeoSelectionValid(l) ==
  IsNone(l) \/ \A i \in 1..Len(Get(l)) : Get(l)[i] \in Range(mmm.geo)

\* The positions of an axis of length n that the selection names.
SelectedTimes(l, coords, n) ==
  IF IsNone(l) THEN AsSeq([i \in 1..n |-> TRUE])
  ELSE IF IsStrList(Get(l))
       THEN AsSeq([i \in 1..n |->
               /\ i <= Len(coords)
               /\ \E j \in 1..Len(Get(l)) : Get(l)[j].s = coords[i]])
  ELSE AsSeq([i \in 1..n |-> i <= Len(Get(l)) /\ Get(l)[i].b])

SelectedGeos(l) ==
  AsSeq([i \in 1..Len(mmm.geo) |->
     IsNone(l) \/ mmm.geo[i] \in Range(Get(l))])

\* The operation the state records, called with arguments a.
Again(a) ==
  IF call.op = "expected_outcome" THEN ExpectedOutcome(mmm, a)
  ELSE IncrementalOutcome(mmm, a)

\* The outcome of the call for every geo and time: nothing selected,
\* nothing summed.
Unselected ==
  Again([call.a EXCEPT !.selected_geos = None, !.selected_times = None,
                       !.aggregate_geos = FALSE, !.aggregate_times = FALSE])

\* The outcome of the call with its selections and nothing summed.
SelectedOnly ==
  Again([call.a EXCEPT !.aggregate_geos = FALSE, !.aggregate_times = FALSE])

\* The time length of the outcome that the call filters.
FilteredNTimes ==
  IF call.op = "expected_outcome" THEN mmm.n_times
  ELSE NTimesOutput(mmm, IncrementalNTimesOutput(mmm, res.data_tensors))

\* The entries of a (draw, geo, time, ...) tensor at the selected geos and
\* times.
AtSelected(t, geos, times) ==
  AsSeq([d \in 1..Len(t) |->
     SelectByMask(AsSeq([g \in 1..Len(t[d]) |->
                     SelectByMask(t[d][g], times)]), geos)])

SelectionCall ==
  /\ call.op \in {"expected_outcome", "incremental_outcome"}
  /\ res.err = "none"

\* C11: a call that returns has valid selections (a boolean time mask as
\* long as the time axis it filters or names of the model's time axis,
\* geo names of the model's geo axis), so every other selection raises;
\* and the returned outcome keeps exactly the selected geos and times of
\* the outcome computed without selection.
C11_SelectionValidation ==
  SelectionCall =>
    /\ TimeSelectionValid(call.a.selected_times, mmm.time, FilteredNTimes)
    /\ GeoSelectionValid(call.a.selected_geos)
    /\ call.op = "incremental_outcome" =>
         TimeSelectionValid(call.a.media_selected_times, mmm.media_time,
                            Len(res.media_selected_times))
    /\ SelectedOnly.shape =
         [Unselected.shape EXCEPT
            ![2] = CountTrue(SelectedGeos(call.a.selected_geos)),
            ![3] = CountTrue(SelectedTimes(call.a.selected_times, mmm.time,
                                           FilteredNTimes))]
    /\ SelectedOnly.val =
         AtSelected(Unselected.val, SelectedGeos(call.a.selected_geos),
                    SelectedTimes(call.a.selected_times, mmm.time,
                                  FilteredNTimes))

(***************************************************************************)
(* Analyzer.compute_incremental_outcome_aggregate.                         *)
(***************************************************************************)
RECURSIVE AppendTotal(_, _)
\* tf.concat([t, tf.reduce_sum(t, axis=-1, keepdims=True)], axis=-1)
AppendTotal(t, rank) ==
  IF rank = 1 THEN t \o <<RSum(t)>>
  ELSE AsSeq([i \in 1..Len(t) |-> AppendTotal(t[i], rank - 1)])

\* The arguments compute_incremental_outcome_aggregate gives to
\* incremental_outcome.
AggregateIncrementalOutcomeArgs(m, a) ==
  [IncrementalOutcomeDefaults EXCEPT
     !.use_posterior = a.use_posterior,
     !.new_data = a.new_data,
     !.use_kpi = a.use_kpi \/ IsNone(m.revenue_per_kpi),
     !.include_non_paid_channels = a.include_non_paid_channels,
     !.non_media_baseline_values = a.non_media_baseline_values,
     !.selected_geos = a.selected_geos,
     !.selected_times = a.selected_times,
     !.aggregate_geos = a.aggregate_geos,
     !.aggregate_times = a.aggregate_times,
     !.batch_size = a.batch_size]

WithTotal(incremental_outcome_m) ==
  IF incremental_outcome_m.err # "none" THEN incremental_outcome_m
  ELSE [incremental_outcome_m EXCEPT
          !.val = AppendTotal(@, Len(incremental_outcome_m.shape)),
          !.shape = [@ EXCEPT ![Len(@)] = @ + 1]]

\* a: [use_posterior, new_data, use_kpi, include_non_paid_channels,
\*     non_media_baseline_values, selected_geos, selected_times,
\*     aggregate_geos, aggregate_times, batch_size]
ComputeIncrementalOutcomeAggregate(m, a) ==
  WithTotal(IncrementalOutcome(m, AggregateIncrementalOutcomeArgs(m, a)))

AggregateDefaults ==
  [use_posterior |-> TRUE, new_data |-> None, use_kpi |-> FALSE,
   include_non_paid_channels |-> TRUE, non_media_baseline_values |-> None,
   selected_geos |-> None, selected_times |-> None,
   aggregate_geos |-> TRUE, aggregate_times |-> TRUE, batch_size |-> 100]

(***************************************************************************)
(* SpecFilter: filter_and_aggregate_geos_and_times receives tensors of     *)
(* every shape, and the tensors of incremental_outcome and                 *)
(* compute_incremental_outcome_aggregate.                                  *)
(***************************************************************************)
\* The numbers of time periods of the models.
FilterModelTimes == {2, 4}

FilterModels ==
  {MakeModel([fams |-> sh.fams, n_geos |-> sh.n_geos, n_times |-> nt,
              n_lag |-> sh.n_lag, kpi_type |-> sh.kpi_type,
              has_rpk |-> sh.has_rpk, groups |-> {}, n_draws |-> 1]) :
     sh \in ValidationModelShapes, nt \in FilterModelTimes}

RECURSIVE ShapedTensor(_, _)
\* A tensor of shape shp with distinct entries.
ShapedTensor(shp, base) ==
  IF shp = <<>> THEN R(base)
  ELSE AsSeq([i \in 1..Head(shp) |-> ShapedTensor(Tail(shp), 2 * base + i)])

\* The channel-axis lengths of the tensors.
ChannelLengths == 0..5

\* The trailing axes of the tensors: (geo, time) and (geo, time, channel),
\* with the model's numbers of geos and times and with others.
TensorTails(m) ==
  LET gs == {m.n_geos, m.n_geos + 1}
      ts == {m.n_times, m.n_geos, 1}
  IN {<<g, t>> : g \in gs, t \in ts}
     \cup {<<g, t, c>> : g \in gs, t \in ts, c \in ChannelLengths}

\* A call of the filter on a tensor with two draws.  carries_channel
\* records whether the tensor was built with a channel axis.
FilterCalls(m) ==
  {[tail |-> tail, carries_channel |-> Len(tail) = 3,
    flexible_time_dim |-> flex, has_media_dim |-> hmd,
    aggregate_geos |-> ag, aggregate_times |-> ag] :
     tail \in TensorTails(m), flex \in BOOLEAN, hmd \in BOOLEAN,
     ag \in BOOLEAN}

FilterIncrementalOutcomeCalls(m) ==
  {[IncrementalOutcomeDefaults EXCEPT
      !.new_data = nd, !.use_kpi = TRUE, !.include_non_paid_channels = np,
      !.aggregate_geos = ag, !.aggregate_times = ag, !.batch_size = 1] :
     nd \in {None, Some(LongerData(m))}, np \in BOOLEAN, ag \in BOOLEAN}

FilterAggregateCalls(m) ==
  {[AggregateDefaults EXCEPT
      !.new_data = nd, !.use_kpi = uk, !.include_non_paid_channels = np,
      !.batch_size = 1] :
     nd \in {None, Some(LongerData(m))}, uk \in BOOLEAN, np \in BOOLEAN}

InitFilter ==
  /\ mmm \in FilterModels
  /\ call = NoCall
  /\ res = NoResult

CallFilter ==
  /\ call = NoCall
  /\ \E a \in FilterCalls(mmm) :
       /\ call' = [op |-> "filter", a |-> a]
       /\ res' = FilterAndAggregateGeosAndTimes(mmm,
                   ShapedTensor(<<2>> \o a.tail, 0), <<2>> \o a.tail,
                   None, None, a.aggregate_geos, a.aggregate_times,
                   a.flexible_time_dim, a.has_media_dim)
  /\ UNCHANGED mmm

FilterIncrementalOutcome ==
  /\ call = NoCall
  /\ \E a \in FilterIncrementalOutcomeCalls(mmm) :
       /\ call' = [op |-> "incremental_outcome", a |-> a]
       /\ res' = IncrementalOutcome(mmm, a)
  /\ UNCHANGED mmm

FilterAggregate ==
  /\ call = NoCall
  /\ \E a \in FilterAggregateCalls(mmm) :
       /\ call' = [op |-> "compute_incremental_outcome_aggregate", a |-> a]
       /\ res' = ComputeIncrementalOutcomeAggregate(mmm, a)
  /\ UNCHANGED mmm

NextFilter ==
  \/ SamplePosterior
  \/ CallFilter
  \/ FilterIncrementalOutcome
  \/ FilterAggregate

SpecFilter == InitFilter /\ [][NextFilter]_vars

\* The channel-axis lengths the filter allows for the model.
AllowedChannelLengths ==
  LET allowed == {mmm.n_media_channels, mmm.n_rf_channels,
                  mmm.n_media_channels + mmm.n_rf_channels,
                  mmm.n_media_channels + mmm.n_rf_channels
                    + mmm.n_organic_media_channels
                    + mmm.n_organic_rf_channels + mmm.n_non_media_channels}
  IN allowed \cup {c + 1 : c \in allowed}

\* The filter is given a tensor built with a channel axis, and in
\* flexible-time mode is told so.
ChannelTensorCall ==
  /\ call.op = "filter"
  /\ call.a.carries_channel
  /\ call.a.flexible_time_dim => call.a.has_media_dim

\* C12: the filter returns for a tensor with a channel axis only if the
\* length of that axis is allowed, and raises the shape error for every
\* other length; the tensors incremental_outcome passes to it, called
\* directly or by compute_incremental_outcome_aggregate, never raise the
\* shape error and have an allowed channel-axis length.
C12_ChannelAxisLength ==
  /\ ChannelTensorCall =>
       /\ res.err = "none" => call.a.tail[3] \in AllowedChannelLengths
       /\ call.a.tail[3] \notin AllowedChannelLengths
            => res.err = "tensor_shape"
  /\ call.op \in {"incremental_outcome",
                  "compute_incremental_outcome_aggregate"} =>
       /\ res.err # "tensor_shape"
       /\ res.err = "none" =>
            res.shape[Len(res.shape)]
              - (IF call.op = "incremental_outcome" THEN 0 ELSE 1)
              \in AllowedChannelLengths

(***************************************************************************)
(* Aggregation of the incremental outcome.                                 *)
(***************************************************************************)
\* The incremental outcome of the call with its selections, for every geo
\* and time that is left: a (draw, geo, time, channel) tensor.
PerGeoPerTime ==
  IncrementalOutcome(mmm, [call.a EXCEPT !.aggregate_geos = FALSE,
                                         !.aggregate_times = FALSE])

\* The entries of u added up over the geos, over the times, or over both.
OverGeosAndTimes(u, shp) ==
  AsSeq([d \in 1..shp[1] |-> AsSeq([c \in 1..shp[4] |->
     RSum(AsSeq([k \in 1..(shp[2] * shp[3]) |->
        u[d][((k - 1) \div shp[3]) + 1][((k - 1) % shp[3]) + 1][c]]))])])

OverGeos(u, shp) ==
  AsSeq([d \in 1..shp[1] |-> AsSeq([t \in 1..shp[3] |->
     AsSeq([c \in 1..shp[4] |->
        RSum(AsSeq([g \in 1..shp[2] |-> u[d][g][t][c]]))])])])

OverTimes(u, shp) ==
  AsSeq([d \in 1..shp[1] |-> AsSeq([g \in 1..shp[2] |->
     AsSeq([c \in 1..shp[4] |->
        RSum(AsSeq([t \in 1..shp[3] |-> u[d][g][t][c]]))])])])

Aggregated(u, shp, aggregate_geos, aggregate_times) ==
  IF aggregate_geos /\ aggregate_times THEN OverGeosAndTimes(u, shp)
  ELSE IF aggregate_geos THEN OverGeos(u, shp)
  ELSE IF aggregate_times THEN OverTimes(u, shp)
  ELSE u

\* C13: the incremental outcome returned with aggregate_geos and/or
\* aggregate_times set is the outcome of the same call without aggregation
\* (same selections, same scenarios) summed over its geo and/or time axis.
C13_AggregationAdditivity ==
  (/\ Computed("incremental_outcome")
   /\ call.a.aggregate_geos \/ call.a.aggregate_times) =>
    /\ PerGeoPerTime.err = "none"
    /\ res.val = Aggregated(PerGeoPerTime.val, PerGeoPerTime.shape,
                            call.a.aggregate_geos, call.a.aggregate_times)

\* Geos and times were both summed after the scenario-0 subtraction, and a
\* time selection was applied before the sum.
C13_Witness ==
  /\ Computed("incremental_outcome")
  /\ call.a.aggregate_geos
  /\ call.a.aggregate_times
  /\ res.scenario0_run
  /\ ~IsNone(call.a.selected_times)
  /\ mmm.n_geos = 2
  /\ Len(res.val) = 3
  /\ res.val # ZeroTensor(res.shape)

\* ---------------------------------------------------------------------
\* _compute_non_media_baseline on its own.

\* Non-media treatments whose extreme values sit in the middle of the
\* geo and time axes.
BaselineTreatments(n_geos, n_times, n_channels) ==
  AsSeq([g \in 1..n_geos |-> AsSeq([t \in 1..n_times |->
    AsSeq([c \in 1..n_channels |->
      R((g + 2 * t + 3 * c) * (IF t % 2 = 0 THEN -1 ELSE 1))])])])

\* The entries of a non_media_baseline_values list.
BaselineEntries ==
  {BaselineMin, BaselineMax, BaselineFloat(R(3)), BaselineFloat(Rat(-1, 2)),
   BaselineInt(R(3)), BaselineBad}

\* The calls of _compute_non_media_baseline: treatments with one or two
\* channels, no list or a list of one or two entries, every time selected
\* or every other time.
BaselineCalls ==
  {[n_geos |-> g, n_times |-> t, n_channels |-> c,
    non_media_baseline_values |-> v, non_media_selected_times |-> st] :
     g \in 1..2, t \in 2..3, c \in 1..2,
     v \in {None} \cup {Some(<<e>>) : e \in BaselineEntries}
          \cup {Some(<<e, f>>) : e \in BaselineEntries, f \in BaselineEntries},
     st \in {0, 1, 2}}

\* non_media_selected_times of a call: none, every other time, no time.
BaselineSelectedTimes(a) ==
  IF a.non_media_selected_times = 0 THEN None
  ELSE IF a.non_media_selected_times = 1 THEN Some(AltMask(a.n_times))
  ELSE Some(AsSeq([t \in 1..a.n_times |-> FALSE]))

InitBaseline ==
  /\ mmm \in {NewModel(sh, 1) : sh \in ModelShapes}
  /\ call = NoCall
  /\ res = NoResult

CallComputeNonMediaBaseline ==
  /\ call = NoCall
  /\ \E a \in BaselineCalls :
       /\ call' = [op |-> "_compute_non_media_baseline", a |-> a]
       /\ res' = ComputeNonMediaBaseline(
                   BaselineTreatments(a.n_geos, a.n_times, a.n_channels),
                   a.non_media_baseline_values, BaselineSelectedTimes(a))
  /\ UNCHANGED mmm

NextBaseline == SamplePosterior \/ CallComputeNonMediaBaseline

SpecBaseline == InitBaseline /\ [][NextBaseline]_vars

BaselineCalled == call.op = "_compute_non_media_baseline"

\* The entry for channel c: "min" when no list is given.
BaselineEntry(a, c) ==
  IF IsNone(a.non_media_baseline_values) THEN BaselineMin
  ELSE Get(a.non_media_baseline_values)[c]

\* v is the least (greatest) value of channel c over all geos and times.
IsGlobalMin(a, c, v) ==
  LET x == BaselineTreatments(a.n_geos, a.n_times, a.n_channels)
  IN /\ \E g \in 1..a.n_geos, t \in 1..a.n_times : x[g][t][c] = v
     /\ \A g \in 1..a.n_geos, t \in 1..a.n_times : RLeq(v, x[g][t][c])

IsGlobalMax(a, c, v) ==
  LET x == BaselineTreatments(a.n_geos, a.n_times, a.n_channels)
  IN /\ \E g \in 1..a.n_geos, t \in 1..a.n_times : x[g][t][c] = v
     /\ \A g \in 1..a.n_geos, t \in 1..a.n_times : RLeq(x[g][t][c], v)

\* The list has the wrong length, or an entry of a kind outside kinds.
BaselineRejected(a, kinds) ==
  /\ ~IsNone(a.non_media_baseline_values)
  /\ \/ Len(Get(a.non_media_baseline_values)) # a.n_channels
     \/ \E c \in 1..a.n_channels :
          Get(a.non_media_baseline_values)[c].kind \notin kinds

\* The baseline of a call, when the numeric entries are those of `kinds`.
BaselineAsStated(kinds) ==
  BaselineCalled =>
    IF BaselineRejected(call.a, kinds) THEN res.err # "none"
    ELSE /\ res.err = "none"
         /\ \A c \in 1..call.a.n_channels, g \in 1..call.a.n_geos,
               t \in 1..call.a.n_times :
              (IsNone(BaselineSelectedTimes(call.a))
               \/ Get(BaselineSelectedTimes(call.a))[t]) =>
                LET e == BaselineEntry(call.a, c)
                    v == res.val[g][t][c]
                IN IF e.kind = "min" THEN IsGlobalMin(call.a, c, v)
                   ELSE IF e.kind = "max" THEN IsGlobalMax(call.a, c, v)
                   ELSE v = e.v

\* C14 as stated: per channel the baseline is the same value at every geo
\* and every selected time: the channel's minimum over geos and times for
\* 'min' (and for every channel without a list), its maximum for 'max',
\* the given value for a fixed numeric entry, float or integer; a list of
\* the wrong length or with any other entry raises.
C14_NumericBaseline == BaselineAsStated({"min", "max", "float", "int"})

\* C14, amended: as above, with the fixed value accepted only as a float;
\* an integer entry raises like any other unsupported entry.
C14_FloatBaseline == BaselineAsStated({"min", "max", "float"})

\* Two channels, one at its minimum and one at its maximum, which differ,
\* with every other time selected.
C14_Witness ==
  /\ BaselineCalled
  /\ res.err = "none"
  /\ call.a.n_channels = 2
  /\ call.a.n_geos = 2
  /\ call.a.n_times = 3
  /\ call.a.non_media_baseline_values = Some(<<BaselineMin, BaselineMax>>)
  /\ call.a.non_media_selected_times = 1
  /\ res.val[1][1][1] # res.val[1][1][2]
  /\ res.val[2][3][1] = res.val[1][1][1]

\* ---------------------------------------------------------------------
\* cpik against roi.

\* Not-a-number: a value that no rational equals.
NaN == <<0, 0>>

\* roi(..., use_kpi=True) with the arguments of a cpik call.
RoiOfCpikCall ==
  Roi(mmm, [use_posterior |-> call.a.use_posterior,
            new_data |-> call.a.new_data,
            selected_geos |-> call.a.selected_geos,
            selected_times |-> call.a.selected_times,
            aggregate_geos |-> call.a.aggregate_geos,
            use_kpi |-> TRUE, batch_size |-> call.a.batch_size])

RECURSIVE ReciprocalWith(_, _, _)
\* 1 / r at every entry, and at_zero where r is 0.
ReciprocalWith(r, rank, at_zero) ==
  IF rank = 0 THEN (IF r = Zero THEN at_zero ELSE RDiv(One, r))
  ELSE AsSeq([i \in 1..Len(r) |-> ReciprocalWith(r[i], rank - 1, at_zero)])

RECURSIVE HasEntry(_, _, _)
\* Some entry of the tensor t is v.
HasEntry(t, rank, v) ==
  IF rank = 0 THEN t = v
  ELSE \E i \in 1..Len(t) : HasEntry(t[i], rank - 1, v)

\* cpik and roi(use_kpi=True) fail together, and where they return cpik
\* is 1 / roi, with at_zero at the entries whose ROI is 0.
CpikIsReciprocal(at_zero) ==
  call.op = "cpik" =>
    /\ res.err = RoiOfCpikCall.err
    /\ res.err = "none" =>
         /\ res.shape = RoiOfCpikCall.shape
         /\ res.val = ReciprocalWith(RoiOfCpikCall.val, Len(res.shape), at_zero)

\* C15 as stated: for every channel, draw and geo, cpik(...) is
\* 1 / roi(..., use_kpi=True) of the same arguments, and NaN where the
\* ROI is exactly 0.
C15_ReciprocalNaNAtZero == CpikIsReciprocal(NaN)

\* C15, amended: cpik(...) is 1 / roi(..., use_kpi=True) of the same
\* arguments, and 0 (the value of divide_no_nan) where the ROI is exactly 0.
C15_ReciprocalZeroAtZero == CpikIsReciprocal(Zero)

\* A cpik result with an entry whose ROI is 0 and an entry whose ROI is
\* not.
C15_Witness ==
  /\ call.op = "cpik"
  /\ res.err = "none"
  /\ HasEntry(res.val, Len(res.shape), Zero)
  /\ \E i \in 1..Len(res.val) : ~HasEntry(res.val[i], Len(res.shape) - 1, Zero)

(***************************************************************************)
(* Summaries.  A plain division by 0 gives an infinity, or NaN for 0 / 0;  *)
(* of the metrics of get_central_tendency_and_ci the datasets below hold   *)
(* the mean.                                                               *)
(***************************************************************************)
PosInf == <<1, 0>>
NegInf == <<-1, 0>>
IsFinite(x) == x[2] # 0

\* a / b of two finite numbers.
XDiv(a, b) ==
  IF b # Zero THEN RDiv(a, b)
  ELSE IF a = Zero THEN NaN
  ELSE IF RLt(Zero, a) THEN PosInf ELSE NegInf

\* x * k for a positive number k.
XScale(x, k) == IF IsFinite(x) THEN RMul(x, k) ELSE x

\* np.mean of a non-empty sequence.
XMean(xs) ==
  IF \A i \in 1..Len(xs) : IsFinite(xs[i]) THEN RDiv(RSum(xs), R(Len(xs)))
  ELSE IF \E i \in 1..Len(xs) : xs[i] = NaN THEN NaN
  ELSE IF \E i, j \in 1..Len(xs) : xs[i] = PosInf /\ xs[j] = NegInf
       THEN NaN
  ELSE IF \E i \in 1..Len(xs) : xs[i] = PosInf THEN PosInf
  ELSE NegInf

RECURSIVE TMean(_, _)
\* The mean of get_central_tendency_and_ci over the draws: data holds one
\* tensor of rank `rank` per draw.
TMean(data, rank) ==
  IF rank = 0 THEN XMean(data)
  ELSE AsSeq([i \in 1..Len(data[1]) |->
         TMean(AsSeq([d \in 1..Len(data) |-> data[d][i]]), rank - 1)])

RECURSIVE TXDiv(_, _, _)
\* a / b of two tensors of the same shape.
TXDiv(a, b, rank) ==
  IF rank = 0 THEN XDiv(a, b)
  ELSE AsSeq([i \in 1..Len(a) |-> TXDiv(a[i], b[i], rank - 1)])

\* data / denominator, the denominator broadcast over the draws.
DivideDraws(data, denominator, rank) ==
  AsSeq([d \in 1..Len(data) |-> TXDiv(data[d], denominator, rank)])

\* tf.math.divide_no_nan(spend, data), the (channel) spend broadcast over
\* the draws.
SpendPerOutcome(spend, data) ==
  AsSeq([i \in 1..Len(data) |->
     AsSeq([c \in 1..Len(data[i]) |-> DivideNoNan(spend[c], data[i][c])])])

\* An optimal_frequency argument: a tensor of the shape of the frequency,
\* or one value per channel.
FrequencyTensor(x) == [kind |-> "tensor", v |-> x]
FrequencyList(l) == [kind |-> "list", v |-> l]

\* tf.ones_like(frequency) * optimal_frequency
OnesLikeTimes(frequency, optimal_frequency) ==
  AsSeq([g \in 1..NGeo(frequency) |->
    AsSeq([t \in 1..NTime(frequency) |->
      AsSeq([c \in 1..NChan(frequency) |->
        IF optimal_frequency.kind = "tensor"
        THEN optimal_frequency.v[g][t][c]
        ELSE optimal_frequency.v[c]])])])

\* get_aggregated_impressions without new data; optimal_frequency is
\* optional.
GetAggregatedImpressions(m, selected_geos, selected_times, aggregate_geos, aggregate_times, optimal_frequency, include_non_paid_channels) ==
  LET Recent(x) == AsSeq([g \in 1..Len(x) |-> LastK(x[g], m.n_times)])
      Times(x, y) ==
        AsSeq([g \in 1..Len(x) |-> AsSeq([t \in 1..Len(x[g]) |->
          AsSeq([c \in 1..Len(x[g][t]) |-> RMul(x[g][t][c], y[g][t][c])])])])
      new_frequency ==
        IF IsNone(optimal_frequency) THEN Get(m.frequency)
        ELSE OnesLikeTimes(Get(m.frequency), Get(optimal_frequency))
      new_organic_frequency ==
        IF IsNone(optimal_frequency) THEN Get(m.organic_frequency)
        ELSE OnesLikeTimes(Get(m.organic_frequency), Get(optimal_frequency))
      impressions_list ==
        (IF m.n_media_channels > 0 THEN <<Recent(Get(m.media))>> ELSE <<>>)
        \o (IF m.n_rf_channels > 0
            THEN <<Times(Recent(Get(m.reach)), Recent(new_frequency))>>
            ELSE <<>>)
        \o (IF include_non_paid_channels /\ m.n_organic_media_channels > 0
            THEN <<Recent(Get(m.organic_media))>> ELSE <<>>)
        \o (IF include_non_paid_channels /\ m.n_organic_rf_channels > 0
            THEN <<Times(Recent(Get(m.organic_reach)),
                         Recent(new_organic_frequency))>>
            ELSE <<>>)
        \o (IF include_non_paid_channels /\ m.n_non_media_channels > 0
            THEN <<Get(m.non_media_treatments)>> ELSE <<>>)
      tensor == ConcatChannels(impressions_list, m.n_geos, m.n_times)
  IN FilterAndAggregateGeosAndTimes(m, tensor, Shape3(tensor),
       selected_geos, selected_times, aggregate_geos, aggregate_times,
       FALSE, TRUE)

(***************************************************************************)
(* optimal_freq and _counterfactual_metric_dataset.                        *)
(***************************************************************************)
DatasetFailed(e) == [err |-> e]

\* The first error of a sequence of error codes, "none" when there is none.
FirstError(errs) ==
  IF \A i \in 1..Len(errs) : errs[i] = "none" THEN "none"
  ELSE errs[CHOOSE i \in 1..Len(errs) :
              errs[i] # "none" /\ \A j \in 1..(i - 1) : errs[j] = "none"]

\* The variables of the dataset, from the tensors its calls returned.
CounterfactualMetricVariables(spend, incremental_outcome_tensor, expected_outcome, mroi, impressions, n_channels) ==
  LET mean_expected_outcome ==
        RDiv(RSum(expected_outcome.val), R(Len(expected_outcome.val)))
      budget == IF RLt(Zero, RSum(spend.val)) THEN RSum(spend.val) ELSE One
      Mean(data) == TMean(data, 1)
  IN [err |-> "none",
      spend |-> spend.val,
      pct_of_spend |->
        AsSeq([c \in 1..n_channels |-> RDiv(spend.val[c], budget)]),
      incremental_outcome |-> Mean(incremental_outcome_tensor.val),
      pct_of_contribution |->
        Mean(AsSeq([i \in 1..Len(incremental_outcome_tensor.val) |->
          AsSeq([c \in 1..n_channels |->
            XScale(XDiv(incremental_outcome_tensor.val[i][c],
                        mean_expected_outcome), R(100))])])),
      roi |-> Mean(DivideByDraw(incremental_outcome_tensor.val, spend.val, 1)),
      mroi |-> Mean(mroi.val),
      effectiveness |->
        Mean(DivideDraws(incremental_outcome_tensor.val, impressions.val, 1)),
      cpik |-> Mean(SpendPerOutcome(spend.val, incremental_outcome_tensor.val))]

CounterfactualMetricResult(performance_data, spend, incremental_outcome_tensor, expected_outcome, mroi, impressions, n_channels) ==
  IF FirstError(<<performance_data.err, spend.err,
                  incremental_outcome_tensor.err, expected_outcome.err,
                  mroi.err, impressions.err>>) # "none"
  THEN DatasetFailed(FirstError(<<performance_data.err, spend.err,
                  incremental_outcome_tensor.err, expected_outcome.err,
                  mroi.err, impressions.err>>))
  ELSE CounterfactualMetricVariables(spend, incremental_outcome_tensor,
         expected_outcome, mroi, impressions, n_channels)

\* derived_data: the tensors of performance_data and the new
\* revenue_per_kpi.
DerivedData(performance_data, new_data) ==
  [EmptyData EXCEPT
     !.media = performance_data.media,
     !.reach = performance_data.reach,
     !.frequency = performance_data.frequency,
     !.media_spend = performance_data.media_spend,
     !.rf_spend = performance_data.rf_spend,
     !.revenue_per_kpi = new_data.revenue_per_kpi]

CounterfactualMetricWithData(m, a, performance_data, derived_data) ==
  CounterfactualMetricResult(performance_data,
    FilterAndAggregateGeosAndTimes(m, Get(TotalSpend(performance_data)),
      Shape3(Get(TotalSpend(performance_data))), a.selected_geos,
      a.selected_times, TRUE, TRUE, FALSE, TRUE),
    IncrementalOutcome(m,
      [IncrementalOutcomeDefaults EXCEPT
         !.new_data = Some(derived_data),
         !.include_non_paid_channels = FALSE,
         !.selected_geos = a.selected_geos,
         !.selected_times = a.selected_times,
         !.use_posterior = a.use_posterior, !.use_kpi = a.use_kpi,
         !.batch_size = a.batch_size]),
    ExpectedOutcome(m,
      [ExpectedOutcomeDefaults EXCEPT
         !.new_data = Some(derived_data),
         !.selected_geos = a.selected_geos,
         !.selected_times = a.selected_times,
         !.use_posterior = a.use_posterior, !.use_kpi = a.use_kpi,
         !.batch_size = a.batch_size]),
    MarginalRoi(m,
      [use_posterior |-> a.use_posterior, new_data |-> Some(derived_data),
       selected_geos |-> a.selected_geos,
       selected_times |-> a.selected_times, aggregate_geos |-> TRUE,
       use_kpi |-> a.use_kpi, batch_size |-> a.batch_size,
       incremental_increase |-> Rat(1, 100),
       by_reach |-> a.marginal_roi_by_reach]),
    GetAggregatedImpressions(m, a.selected_geos, a.selected_times, TRUE,
      TRUE,
      IF IsNone(performance_data.frequency) THEN None
      ELSE Some(FrequencyTensor(Get(performance_data.frequency))),
      FALSE),
    NPaidChannels(m))

CounterfactualMetricOn(m, a, new_data, performance_data) ==
  CounterfactualMetricWithData(m, a, performance_data,
    DerivedData(performance_data, new_data))

\* Analyzer._counterfactual_metric_dataset.
\* a: [use_posterior, new_data, marginal_roi_by_reach, selected_geos,
\*     selected_times, use_kpi, batch_size]; new_data is a DataTensors.
CounterfactualMetricDataset(m, a) ==
  CounterfactualMetricOn(m, a, a.new_data,
    GetPerformanceTensors(m, a.new_data))

\* np.arange(1, max_freq, 0.1)
DefaultFreqGrid(max_freq) ==
  LET n == IF RLeq(max_freq, One) THEN 0
           ELSE LET span == RMul(RSub(max_freq, One), R(10))
                IN IF span[2] = 1 THEN span[1] ELSE (span[1] \div span[2]) + 1
  IN AsSeq([k \in 1..n |-> Rat(9 + k, 10)])

\* tf.ones_like(frequency) * freqs, freqs holding one value per RF
\* channel.
OnesLikeFrequencyTimes(m, freqs) ==
  AsSeq([g \in 1..NGeo(Get(m.frequency)) |->
    AsSeq([t \in 1..NTime(Get(m.frequency)) |-> freqs])])

\* frequency * reach / new_frequency of the model's RF tensors.
ReachAtFrequency(m, new_frequency) ==
  AsSeq([g \in 1..NGeo(new_frequency) |->
    AsSeq([t \in 1..NTime(new_frequency) |->
      AsSeq([c \in 1..NChan(new_frequency) |->
        RDiv(RMul(Get(m.frequency)[g][t][c], Get(m.reach)[g][t][c]),
             new_frequency[g][t][c])])])])

\* DataTensors(reach=new_reach, frequency=new_frequency) at the
\* frequencies freqs, one per RF channel.
FrequencyData(m, freqs) ==
  [EmptyData EXCEPT
     !.reach = Some(ReachAtFrequency(m, OnesLikeFrequencyTimes(m, freqs))),
     !.frequency = Some(OnesLikeFrequencyTimes(m, freqs))]

\* The roi call of the loop of optimal_freq at the grid frequency freq.
GridRoi(m, a, freq) ==
  Roi(m, [RoiDefaults EXCEPT
            !.new_data = Some(FrequencyData(m,
                           AsSeq([c \in 1..m.n_rf_channels |-> freq]))),
            !.use_posterior = a.use_posterior,
            !.selected_geos = a.selected_geos,
            !.selected_times = a.selected_times,
            !.aggregate_geos = TRUE,
            !.use_kpi = a.use_kpi])

\* The last index of the greatest value of xs.
NanArgMaxLast(xs) ==
  CHOOSE i \in 1..Len(xs) :
    /\ \A j \in 1..Len(xs) : RLeq(xs[j], xs[i])
    /\ \A j \in (i + 1)..Len(xs) : RLt(xs[j], xs[i])

\* np.nanargmax of a non-empty sequence of numbers: the first index of
\* the greatest value.
NanArgMax(xs) ==
  CHOOSE i \in 1..Len(xs) :
    /\ \A j \in 1..Len(xs) : RLeq(xs[j], xs[i])
    /\ \A j \in 1..(i - 1) : RLt(xs[j], xs[i])

\* The values of the RF channels, the last of the paid channels.
SelRFChannels(m, values) == LastK(values, m.n_rf_channels)

\* metric_grid[:, :, 0]: the mean ROI of each RF channel at each grid
\* frequency.
MetricGrid(m, rois) ==
  AsSeq([i \in 1..Len(rois) |->
     SelRFChannels(m, TMean(rois[i].val, 1))])

OptimalFrequency(m, freq_grid, metric_grid) ==
  AsSeq([c \in 1..m.n_rf_channels |->
     freq_grid[NanArgMax(AsSeq([i \in 1..Len(freq_grid) |->
                                  metric_grid[i][c]]))]])

\* The arguments of the two _counterfactual_metric_dataset calls.
OptimizedMetricsArgs(m, a, optimal_frequency, by_reach) ==
  [use_posterior |-> a.use_posterior,
   new_data |-> FrequencyData(m, optimal_frequency),
   marginal_roi_by_reach |-> by_reach,
   selected_geos |-> a.selected_geos,
   selected_times |-> a.selected_times,
   use_kpi |-> a.use_kpi, batch_size |-> 100]

OptimalFreqResult(m, freq_grid, metric_grid, optimal_frequency, by_reach, by_frequency) ==
  IF by_reach.err # "none" THEN DatasetFailed(by_reach.err)
  ELSE IF by_frequency.err # "none" THEN DatasetFailed(by_frequency.err)
  ELSE [err |-> "none",
        frequency |-> freq_grid,
        roi |-> metric_grid,
        optimal_frequency |-> optimal_frequency,
        optimized_incremental_outcome |->
          SelRFChannels(m, by_reach.incremental_outcome),
        optimized_pct_of_contribution |->
          SelRFChannels(m, by_reach.pct_of_contribution),
        optimized_roi |-> SelRFChannels(m, by_reach.roi),
        optimized_effectiveness |->
          SelRFChannels(m, by_reach.effectiveness),
        optimized_mroi_by_reach |-> SelRFChannels(m, by_reach.mroi),
        optimized_mroi_by_frequency |->
          SelRFChannels(m, by_frequency.mroi),
        optimized_cpik |-> SelRFChannels(m, by_reach.cpik)]

OptimalFreqWithOptimum(m, a, freq_grid, metric_grid, optimal_frequency) ==
  OptimalFreqResult(m, freq_grid, metric_grid, optimal_frequency,
    CounterfactualMetricDataset(m,
      OptimizedMetricsArgs(m, a, optimal_frequency, TRUE)),
    CounterfactualMetricDataset(m,
      OptimizedMetricsArgs(m, a, optimal_frequency, FALSE)))

OptimalFreqWithMetricGrid(m, a, freq_grid, metric_grid) ==
  OptimalFreqWithOptimum(m, a, freq_grid, metric_grid,
    OptimalFrequency(m, freq_grid, metric_grid))

\* rois: the result of the roi call at each grid frequency.  The first
\* call that raises ends the loop; np.nanargmax raises on an empty grid.
OptimalFreqWithRois(m, a, freq_grid, rois) ==
  IF FirstError(AsSeq([i \in 1..Len(rois) |-> rois[i].err])) # "none"
  THEN DatasetFailed(FirstError(AsSeq([i \in 1..Len(rois) |-> rois[i].err])))
  ELSE IF freq_grid = <<>> THEN DatasetFailed("empty_grid")
  ELSE OptimalFreqWithMetricGrid(m, a, freq_grid, MetricGrid(m, rois))

OptimalFreqOn(m, a, freq_grid) ==
  OptimalFreqWithRois(m, a, freq_grid,
    AsSeq([i \in 1..Len(freq_grid) |-> GridRoi(m, a, freq_grid[i])]))

\* Analyzer.optimal_freq.
\* a: [freq_grid, use_posterior, use_kpi, selected_geos, selected_times];
\* freq_grid is optional.
OptimalFreq(m, a) ==
  IF m.n_rf_channels = 0 THEN DatasetFailed("no_rf_channels")
  ELSE IF DistType(a.use_posterior) \notin m.groups
  THEN DatasetFailed("not_fitted")
  ELSE OptimalFreqOn(m, a,
         IF IsNone(a.freq_grid)
         THEN DefaultFreqGrid(RMaxSeq(Flatten(Flatten(Get(m.frequency)))))
         ELSE Get(a.freq_grid))

(***************************************************************************)
(* summary_metrics, without new data.  A data variable with the metric     *)
(* and distribution axes is held as its means, prior and posterior.        *)
(***************************************************************************)
RECURSIVE TXOverLast(_, _, _)
\* a / b[..., None]: b lacks the last axis of a.
TXOverLast(a, b, rank) ==
  IF rank = 1 THEN AsSeq([c \in 1..Len(a) |-> XDiv(a[c], b)])
  ELSE AsSeq([i \in 1..Len(a) |-> TXOverLast(a[i], b[i], rank - 1)])

RECURSIVE TXScale(_, _, _)
TXScale(a, k, rank) ==
  IF rank = 0 THEN XScale(a, k)
  ELSE AsSeq([i \in 1..Len(a) |-> TXScale(a[i], k, rank - 1)])

RECURSIVE LastChannel(_, _)
\* t[..., -1]
LastChannel(t, rank) ==
  IF rank = 1 THEN t[Len(t)]
  ELSE AsSeq([i \in 1..Len(t) |-> LastChannel(t[i], rank - 1)])

RECURSIVE ConcatLast(_, _, _)
\* tf.concat([a, b[..., None]], axis=-1)
ConcatLast(a, b, rank) ==
  IF rank = 1 THEN a \o <<b>>
  ELSE AsSeq([i \in 1..Len(a) |-> ConcatLast(a[i], b[i], rank - 1)])

\* The values as they are, 'All Channels' included.
KeepAllChannels(t, rank) == t

RECURSIVE WhereNotAllChannels(_, _)
\* .where(channel != 'All Channels'): NaN at the last channel.
WhereNotAllChannels(t, rank) ==
  IF rank = 1 THEN [t EXCEPT ![Len(t)] = NaN]
  ELSE AsSeq([i \in 1..Len(t) |-> WhereNotAllChannels(t[i], rank - 1)])

\* _central_tendency_and_ci_by_prior_and_posterior of two tensors with a
\* draw axis and `rank` more axes.
ByPriorAndPosterior(prior, posterior, rank) ==
  [prior |-> TMean(prior, rank), posterior |-> TMean(posterior, rank)]

\* The same, with .where(channel != 'All Channels').
ByPriorAndPosteriorWhere(prior, posterior, rank) ==
  [prior |-> WhereNotAllChannels(TMean(prior, rank), rank),
   posterior |-> WhereNotAllChannels(TMean(posterior, rank), rank)]

\* _compute_pct_of_contribution for one distribution.
PctOfContribution(incremental_outcome, expected_outcome, rank) ==
  AsSeq([d \in 1..Len(incremental_outcome) |->
     TXScale(TXOverLast(incremental_outcome[d],
                        TMean(expected_outcome, rank - 1), rank),
             R(100), rank)])

\* _compute_spend_data_aggregate
SpendDataAggregate(spend_with_total, impressions_with_total, rank) ==
  [impressions |-> impressions_with_total,
   pct_of_impressions |->
     TXScale(TXOverLast(impressions_with_total,
                        LastChannel(impressions_with_total, rank), rank),
             R(100), rank),
   spend |-> spend_with_total,
   pct_of_spend |->
     TXScale(TXOverLast(spend_with_total,
                        LastChannel(spend_with_total, rank), rank),
             R(100), rank),
   cpm |-> TXScale(TXDiv(spend_with_total, impressions_with_total, rank),
                   R(1000), rank)]

\* The spend tensors of the model, concatenated over the channels.
SpendList(m) ==
  ConcatChannels(
    (IF m.n_media_channels > 0 THEN <<Get(m.media_spend)>> ELSE <<>>)
    \o (IF m.n_rf_channels > 0 THEN <<Get(m.rf_spend)>> ELSE <<>>),
    m.n_geos, m.n_times)

\* The total of _compute_marginal_roi_aggregate for one distribution:
\* (expected_outcome(incremented) - expected_outcome) /
\* (incremental_increase * spend of 'All Channels').
MroiTotal(incremented, expected_outcome, increase, spend_total, rank) ==
  AsSeq([d \in 1..Len(incremented) |->
     TXDiv(TSub(incremented[d], expected_outcome[d], rank),
           TXScale(spend_total, increase, rank), rank)])

SummaryDataset(data) == [err |-> "none", data |-> data]

\* The variables of summary_metrics that need the spend and time
\* aggregation: roi, mroi and cpik.  rank counts the axes after the draws.
\* mrois, incremented and incremental_kpis hold the prior, then the
\* posterior result.
ProfitabilityVariables(a, outcomes, expected, spend_with_total, mrois, incremented, incremental_kpis, rank) ==
  [roi |->
     ByPriorAndPosterior(
       DivideDraws(outcomes[1].val, spend_with_total, rank),
       DivideDraws(outcomes[2].val, spend_with_total, rank), rank),
   mroi |->
     ByPriorAndPosteriorWhere(
       AsSeq([d \in 1..Len(mrois[1].val) |->
          ConcatLast(mrois[1].val[d],
            MroiTotal(incremented[1].val, expected[1].val,
              a.marginal_roi_incremental_increase,
              LastChannel(spend_with_total, rank), rank - 1)[d], rank)]),
       AsSeq([d \in 1..Len(mrois[2].val) |->
          ConcatLast(mrois[2].val[d],
            MroiTotal(incremented[2].val, expected[2].val,
              a.marginal_roi_incremental_increase,
              LastChannel(spend_with_total, rank), rank - 1)[d], rank)]),
       rank),
   cpik |->
     ByPriorAndPosterior(
       AsSeq([d \in 1..Len(incremental_kpis[1].val) |->
          TXDiv(spend_with_total, incremental_kpis[1].val[d], rank)]),
       AsSeq([d \in 1..Len(incremental_kpis[2].val) |->
          TXDiv(spend_with_total, incremental_kpis[2].val[d], rank)]),
       rank)]

SummaryProfitability(a, sofar, outcomes, expected, spend_with_total, mrois, incremented, incremental_kpis, rank) ==
  IF FirstError(<<mrois[1].err, mrois[2].err, incremented[1].err,
                  incremented[2].err, incremental_kpis[1].err,
                  incremental_kpis[2].err>>) # "none"
  THEN DatasetFailed(FirstError(<<mrois[1].err, mrois[2].err,
                  incremented[1].err, incremented[2].err,
                  incremental_kpis[1].err, incremental_kpis[2].err>>))
  ELSE SummaryDataset(sofar @@ ProfitabilityVariables(a, outcomes, expected,
         spend_with_total, mrois, incremented, incremental_kpis, rank))

\* The marginal_roi call of _compute_marginal_roi_aggregate.
AggregateMarginalRoi(m, a, use_posterior) ==
  MarginalRoi(m,
    [use_posterior |-> use_posterior,
     new_data |-> Some(FillMissingDataTensors(m, EmptyData,
                         {"media", "reach", "frequency"})),
     selected_geos |-> a.selected_geos, selected_times |-> a.selected_times,
     aggregate_geos |-> a.aggregate_geos, use_kpi |-> a.use_kpi,
     batch_size |-> a.batch_size,
     incremental_increase |-> a.marginal_roi_incremental_increase,
     by_reach |-> a.marginal_roi_by_reach])

\* expected_outcome of the incremented tensors.
IncrementedExpectedOutcome(m, a, use_posterior) ==
  ExpectedOutcome(m,
    [ExpectedOutcomeDefaults EXCEPT
       !.use_posterior = use_posterior,
       !.new_data = Some(ScaleTensorsByMultiplier(m.media, m.reach,
                      m.frequency,
                      RAdd(One, a.marginal_roi_incremental_increase),
                      a.marginal_roi_by_reach)),
       !.use_kpi = a.use_kpi,
       !.selected_geos = a.selected_geos,
       !.selected_times = a.selected_times,
       !.aggregate_geos = a.aggregate_geos,
       !.batch_size = a.batch_size])

\* The incremental KPI of the cpik variable.
IncrementalKpiAggregate(m, a, use_posterior) ==
  ComputeIncrementalOutcomeAggregate(m,
    [AggregateDefaults EXCEPT
       !.use_posterior = use_posterior, !.use_kpi = TRUE,
       !.include_non_paid_channels = FALSE,
       !.selected_geos = a.selected_geos,
       !.selected_times = a.selected_times,
       !.aggregate_geos = a.aggregate_geos,
       !.aggregate_times = a.aggregate_times,
       !.batch_size = a.batch_size])

\* The paid variables: the spend data, and with time aggregation roi,
\* effectiveness, mroi and cpik.
SummaryPaid(m, a, sofar, effectiveness, impressions_with_total, outcomes, expected, spend, rank) ==
  IF spend.err # "none" THEN DatasetFailed(spend.err)
  ELSE IF ~a.aggregate_times
  THEN SummaryDataset(
         SpendDataAggregate(AppendTotal(spend.val, rank),
                            impressions_with_total, rank) @@ sofar)
  ELSE SummaryProfitability(a,
         SpendDataAggregate(AppendTotal(spend.val, rank),
                            impressions_with_total, rank)
           @@ sofar @@ effectiveness,
         outcomes, expected, AppendTotal(spend.val, rank),
         <<AggregateMarginalRoi(m, a, FALSE),
           AggregateMarginalRoi(m, a, TRUE)>>,
         <<IncrementedExpectedOutcome(m, a, FALSE),
           IncrementedExpectedOutcome(m, a, TRUE)>>,
         <<IncrementalKpiAggregate(m, a, FALSE),
           IncrementalKpiAggregate(m, a, TRUE)>>,
         rank)

\* A return that keeps effectiveness whatever aggregate_times is.
SummaryReturnAnyTimes(m, a, sofar, effectiveness, impressions_with_total, outcomes, expected, rank) ==
  IF a.include_non_paid_channels
  THEN SummaryDataset(sofar @@ effectiveness)
  ELSE SummaryPaid(m, a, sofar, effectiveness, impressions_with_total,
         outcomes, expected,
         FilterAndAggregateGeosAndTimes(m, SpendList(m),
           Shape3(SpendList(m)), a.selected_geos, a.selected_times,
           a.aggregate_geos, a.aggregate_times, FALSE, TRUE),
         rank)

\* The return of summary_metrics from the non-paid variables on.
SummaryReturn(m, a, sofar, effectiveness, impressions_with_total, outcomes, expected, rank) ==
  IF a.include_non_paid_channels
  THEN SummaryDataset(IF a.aggregate_times THEN sofar @@ effectiveness
                      ELSE sofar)
  ELSE SummaryPaid(m, a, sofar, effectiveness, impressions_with_total,
         outcomes, expected,
         FilterAndAggregateGeosAndTimes(m, SpendList(m),
           Shape3(SpendList(m)), a.selected_geos, a.selected_times,
           a.aggregate_geos, a.aggregate_times, FALSE, TRUE),
         rank)

\* incremental_outcome, pct_of_contribution and effectiveness.
SummaryNonPaid(m, a, impressions_with_total, outcomes, expected, rank) ==
  SummaryReturn(m, a,
    [incremental_outcome |->
       ByPriorAndPosterior(outcomes[1].val, outcomes[2].val, rank),
     pct_of_contribution |->
       ByPriorAndPosterior(
         PctOfContribution(outcomes[1].val, expected[1].val, rank),
         PctOfContribution(outcomes[2].val, expected[2].val, rank), rank)],
    [effectiveness |->
       ByPriorAndPosteriorWhere(
         DivideDraws(outcomes[1].val, impressions_with_total, rank),
         DivideDraws(outcomes[2].val, impressions_with_total, rank), rank)],
    impressions_with_total, outcomes, expected, rank)

\* outcomes: compute_incremental_outcome_aggregate, prior then posterior;
\* expected: expected_outcome, prior then posterior.
SummaryWithOutcomes(m, a, impressions, outcomes, expected) ==
  IF FirstError(<<impressions.err, outcomes[1].err, outcomes[2].err,
                  expected[1].err, expected[2].err>>) # "none"
  THEN DatasetFailed(FirstError(<<impressions.err, outcomes[1].err,
                  outcomes[2].err, expected[1].err, expected[2].err>>))
  ELSE SummaryNonPaid(m, a,
         AppendTotal(impressions.val, Len(impressions.shape)),
         outcomes, expected, Len(impressions.shape))

SummaryOutcomeAggregate(m, a, use_posterior) ==
  ComputeIncrementalOutcomeAggregate(m,
    [AggregateDefaults EXCEPT
       !.use_posterior = use_posterior, !.use_kpi = a.use_kpi,
       !.include_non_paid_channels = a.include_non_paid_channels,
       !.non_media_baseline_values = a.non_media_baseline_values,
       !.selected_geos = a.selected_geos,
       !.selected_times = a.selected_times,
       !.aggregate_geos = a.aggregate_geos,
       !.aggregate_times = a.aggregate_times,
       !.batch_size = a.batch_size])

SummaryExpectedOutcome(m, a, use_posterior) ==
  ExpectedOutcome(m,
    [ExpectedOutcomeDefaults EXCEPT
       !.use_posterior = use_posterior, !.use_kpi = a.use_kpi,
       !.selected_geos = a.selected_geos,
       !.selected_times = a.selected_times,
       !.aggregate_geos = a.aggregate_geos,
       !.aggregate_times = a.aggregate_times,
       !.batch_size = a.batch_size])

\* Analyzer.summary_metrics.
\* a: [marginal_roi_by_reach, marginal_roi_incremental_increase,
\*     selected_geos, selected_times, aggregate_geos, aggregate_times,
\*     optimal_frequency, use_kpi, batch_size, include_non_paid_channels,
\*     non_media_baseline_values]
SummaryMetrics(m, a) ==
  SummaryWithOutcomes(m, a,
    GetAggregatedImpressions(m, a.selected_geos, a.selected_times,
      a.aggregate_geos, a.aggregate_times,
      IF IsNone(a.optimal_frequency) THEN None
      ELSE Some(FrequencyList(Get(a.optimal_frequency))),
      a.include_non_paid_channels),
    <<SummaryOutcomeAggregate(m, a, FALSE),
      SummaryOutcomeAggregate(m, a, TRUE)>>,
    <<SummaryExpectedOutcome(m, a, FALSE),
      SummaryExpectedOutcome(m, a, TRUE)>>)

SummaryMetricsDefaults ==
  [marginal_roi_by_reach |-> TRUE,
   marginal_roi_incremental_increase |-> Rat(1, 100),
   selected_geos |-> None, selected_times |-> None,
   aggregate_geos |-> TRUE, aggregate_times |-> TRUE,
   optimal_frequency |-> None, use_kpi |-> FALSE, batch_size |-> 100,
   include_non_paid_channels |-> FALSE,
   non_media_baseline_values |-> None]

(***************************************************************************)
(* SpecSummary: the summaries of a model whose prior and posterior are     *)
(* sampled in either order.                                                *)
(***************************************************************************)
SummaryMetricsCalls(m) ==
  {[SummaryMetricsDefaults EXCEPT
      !.use_kpi = uk, !.include_non_paid_channels = np,
      !.aggregate_geos = ag, !.aggregate_times = at,
      !.marginal_roi_by_reach = br, !.selected_times = st,
      !.marginal_roi_incremental_increase = Rat(1, 2),
      !.batch_size = 2] :
     uk \in BOOLEAN, np \in BOOLEAN, ag \in BOOLEAN, at \in BOOLEAN,
     br \in BOOLEAN, st \in {None, Some(StrList(<<"t2">>))}}
  \cup
  {[SummaryMetricsDefaults EXCEPT
      !.use_kpi = uk, !.include_non_paid_channels = np,
      !.non_media_baseline_values =
        IF m.n_non_media_channels > 0 THEN Some(<<BaselineMax>>) ELSE None,
      !.marginal_roi_incremental_increase = Rat(1, 2),
      !.optimal_frequency =
        IF m.n_rf_channels > 0 THEN Some(<<R(3)>>) ELSE None] :
     uk \in BOOLEAN, np \in BOOLEAN}

\* Frequency grids: the default, grids out of order and with repeated
\* frequencies, the empty grid.
FreqGrids ==
  {None, Some(<<>>), Some(<<R(2), One, Rat(3, 2)>>),
   Some(<<R(2), One, R(2), One>>), Some(<<Rat(3, 2), Rat(3, 2), R(3)>>)}

OptimalFreqCalls ==
  {[freq_grid |-> fg, use_posterior |-> up, use_kpi |-> uk,
    selected_geos |-> None, selected_times |-> st] :
     fg \in FreqGrids, up \in BOOLEAN, uk \in BOOLEAN,
     st \in {None, Some(StrList(<<"t2">>))}}

SummaryCpikCalls ==
  {[use_posterior |-> up, new_data |-> None, selected_geos |-> None,
    selected_times |-> st, aggregate_geos |-> ag, batch_size |-> 100] :
     up \in BOOLEAN, ag \in BOOLEAN,
     st \in {None, Some(StrList(<<"t2">>))}}

\* The models of the summaries: reach and frequency at the frequency 1,
\* media alone, media with reach and
\* frequency and a revenue per KPI, and the non-paid families.  The second
\* has one draw: the increase of 1 / 100 that optimal_freq gives its media
\* keeps its numbers within the integers.  The third has three draws, a
\* number that is not its number of geos.
\* A model whose reach and frequency channel was observed at the frequency
\* 1 in every geo and period.
UnitFrequencyModel ==
  [NewModel([fams |-> {"rf"}, n_geos |-> 1, n_lag |-> 1,
             kpi_type |-> "revenue", has_rpk |-> FALSE], 1)
     EXCEPT !.frequency = Some(<<<<<<One>>, <<One>>, <<One>>>>>>)]

SummaryModels ==
  {UnitFrequencyModel,
   NewModel([fams |-> {"media"}, n_geos |-> 1, n_lag |-> 1,
             kpi_type |-> "revenue", has_rpk |-> FALSE], 2),
   NewModel([fams |-> {"media", "rf"}, n_geos |-> 1, n_lag |-> 1,
             kpi_type |-> "non_revenue", has_rpk |-> TRUE], 1),
   NewModel([fams |-> {"rf", "organic_media", "organic_rf", "non_media"},
             n_geos |-> 2, n_lag |-> 0, kpi_type |-> "non_revenue",
             has_rpk |-> FALSE], 3)}

InitSummary ==
  /\ mmm \in SummaryModels
  /\ call = NoCall
  /\ res = NoResult

CallSummaryMetrics ==
  /\ call = NoCall
  /\ \E a \in SummaryMetricsCalls(mmm) :
       /\ call' = [op |-> "summary_metrics", a |-> a]
       /\ res' = SummaryMetrics(mmm, a)
  /\ UNCHANGED mmm

CallOptimalFreq ==
  /\ call = NoCall
  /\ \E a \in OptimalFreqCalls :
       /\ call' = [op |-> "optimal_freq", a |-> a]
       /\ res' = OptimalFreq(mmm, a)
  /\ UNCHANGED mmm

SummaryCpik ==
  /\ call = NoCall
  /\ \E a \in SummaryCpikCalls :
       /\ call' = [op |-> "cpik", a |-> a]
       /\ res' = Cpik(mmm, a)
  /\ UNCHANGED mmm

SummaryAggregateCalls ==
  {[AggregateDefaults EXCEPT
      !.use_posterior = up, !.use_kpi = uk,
      !.include_non_paid_channels = np, !.aggregate_geos = ag,
      !.aggregate_times = at, !.batch_size = 2] :
     up \in BOOLEAN, uk \in BOOLEAN, np \in BOOLEAN, ag \in BOOLEAN,
     at \in BOOLEAN}

SummaryAggregate ==
  /\ call = NoCall
  /\ \E a \in SummaryAggregateCalls :
       /\ call' = [op |-> "compute_incremental_outcome_aggregate", a |-> a]
       /\ res' = ComputeIncrementalOutcomeAggregate(mmm, a)
  /\ UNCHANGED mmm

SummaryRoiCalls ==
  {[RoiDefaults EXCEPT !.use_posterior = up, !.use_kpi = uk,
                       !.aggregate_geos = ag, !.selected_times = st,
                       !.batch_size = 2] :
     up \in BOOLEAN, uk \in BOOLEAN, ag \in BOOLEAN,
     st \in {None, Some(StrList(<<"t2">>))}}

SummaryRoi ==
  /\ call = NoCall
  /\ \E a \in SummaryRoiCalls :
       /\ call' = [op |-> "roi", a |-> a]
       /\ res' = Roi(mmm, a)
  /\ UNCHANGED mmm

SummaryMarginalRoi ==
  /\ call = NoCall
  /\ \E a \in SummaryRoiCalls, br \in BOOLEAN :
       /\ call' = [op |-> "marginal_roi",
                   a |-> [incremental_increase |-> Rat(1, 2),
                          by_reach |-> br] @@ a]
       /\ res' = MarginalRoi(mmm, call'.a)
  /\ UNCHANGED mmm

NextSummary ==
  \/ SamplePrior
  \/ SamplePosterior
  \/ CallSummaryMetrics
  \/ CallOptimalFreq
  \/ SummaryCpik
  \/ SummaryAggregate
  \/ SummaryRoi
  \/ SummaryMarginalRoi

SpecSummary == InitSummary /\ [][NextSummary]_vars

\* ---------------------------------------------------------------------
\* CPIK and use_kpi.

\* The cpik variable of the summary_metrics call, had use_kpi been True.
SummaryCpikWithKpi ==
  SummaryMetrics(mmm, [call.a EXCEPT !.use_kpi = TRUE]).data.cpik

\* The mean of spend / incremental KPI of the RF channels at the optimal
\* frequencies the optimal_freq call found.
OptimizedCpikWithKpi ==
  SelRFChannels(mmm,
    CounterfactualMetricDataset(mmm,
      [OptimizedMetricsArgs(mmm, call.a, res.optimal_frequency, TRUE)
         EXCEPT !.use_kpi = TRUE]).cpik)

CpikForcesKpi ==
  (call.op = "cpik" /\ res.err = "none") =>
    res.val = TReciprocal(RoiOfCpikCall.val, Len(res.shape))

SummaryCpikForcesKpi ==
  (/\ call.op = "summary_metrics"
   /\ res.err = "none"
   /\ "cpik" \in DOMAIN res.data) => res.data.cpik = SummaryCpikWithKpi

OptimizedCpikForcesKpi ==
  (call.op = "optimal_freq" /\ res.err = "none") =>
    res.optimized_cpik = OptimizedCpikWithKpi

\* C16: every CPIK value - of cpik(), the cpik variable of summary_metrics
\* and optimized_cpik of optimal_freq - is computed from the incremental
\* KPI (use_kpi=True), whatever use_kpi the caller passed.
C16_CpikForcesKpi ==
  /\ CpikForcesKpi
  /\ SummaryCpikForcesKpi
  /\ OptimizedCpikForcesKpi

\* ---------------------------------------------------------------------
\* marginal_roi as a finite difference.

\* The arguments of the incremental_outcome calls behind marginal_roi:
\* paid channels only, times aggregated, everything else from the call.
MarginalOutcomeArgs(data) ==
  [IncrementalOutcomeDefaults EXCEPT
     !.new_data = Some(data),
     !.use_posterior = call.a.use_posterior, !.use_kpi = call.a.use_kpi,
     !.batch_size = call.a.batch_size, !.include_non_paid_channels = FALSE,
     !.selected_geos = call.a.selected_geos,
     !.selected_times = call.a.selected_times,
     !.aggregate_geos = call.a.aggregate_geos, !.aggregate_times = TRUE]

\* The new data of the call.
MarginalNewData ==
  IF IsNone(call.a.new_data) THEN EmptyData ELSE Get(call.a.new_data)

\* The inputs of IO_base: the execution tensors of the call, new or
\* historical, and its revenue_per_kpi.
BaseInputs ==
  [EmptyData EXCEPT
     !.media = NewOr(MarginalNewData.media, mmm.media),
     !.reach = NewOr(MarginalNewData.reach, mmm.reach),
     !.frequency = NewOr(MarginalNewData.frequency, mmm.frequency),
     !.revenue_per_kpi = MarginalNewData.revenue_per_kpi]

\* x multiplied by 1 + incremental_increase, when x is there.
Increased(x) ==
  IF IsNone(x) THEN None
  ELSE Some(Map3(Get(x),
         LAMBDA v : RMul(v, RAdd(One, call.a.incremental_increase))))

\* The inputs of IO_perturbed: those of IO_base except for the media, and
\* the reach or the frequency.
PerturbedInputs ==
  [BaseInputs EXCEPT
     !.media = Increased(@),
     !.reach = IF call.a.by_reach THEN Increased(@) ELSE @,
     !.frequency = IF call.a.by_reach THEN @ ELSE Increased(@)]

\* incremental_increase * total spend, over the selected geos and times.
SpendIncrease ==
  FilterAndAggregateGeosAndTimes(mmm,
    Map3(Get(TotalSpend(GetPerformanceTensors(mmm, MarginalNewData))),
         LAMBDA v : RMul(v, call.a.incremental_increase)),
    Shape3(Get(TotalSpend(GetPerformanceTensors(mmm, MarginalNewData)))),
    call.a.selected_geos, call.a.selected_times, call.a.aggregate_geos,
    TRUE, FALSE, TRUE).val

FiniteDifference ==
  DivideByDraw(
    TSub(IncrementalOutcome(mmm, MarginalOutcomeArgs(PerturbedInputs)).val,
         IncrementalOutcome(mmm, MarginalOutcomeArgs(BaseInputs)).val,
         Len(res.shape)),
    SpendIncrease, Len(res.shape) - 1)

\* C17: marginal_roi is (IO_perturbed - IO_base) / (incremental_increase *
\* total spend), the two incremental outcomes computed from the same
\* inputs (revenue_per_kpi, selections, draws, paid channels, times
\* aggregated) except that IO_perturbed has the media multiplied by
\* 1 + incremental_increase and, of reach and frequency, the reach
\* multiplied when by_reach and the frequency when not.
C17_MarginalRoiFiniteDifference ==
  (call.op = "marginal_roi" /\ res.err = "none") =>
    res.val = FiniteDifference

\* ---------------------------------------------------------------------
\* The 'All Channels' entry.

RECURSIVE TotalIsSum(_, _)
\* In every cell the last channel entry is the sum of the others.
TotalIsSum(t, rank) ==
  IF rank = 1 THEN t[Len(t)] = RSum(SubSeq(t, 1, Len(t) - 1))
  ELSE \A i \in 1..Len(t) : TotalIsSum(t[i], rank - 1)

RECURSIVE TotalIsNaN(_, _)
\* In every cell the last channel entry is NaN.
TotalIsNaN(t, rank) ==
  IF rank = 1 THEN t[Len(t)] = NaN
  ELSE \A i \in 1..Len(t) : TotalIsNaN(t[i], rank - 1)

RECURSIVE WithoutTotal(_, _)
\* The tensor without its last channel entry.
WithoutTotal(t, rank) ==
  IF rank = 1 THEN SubSeq(t, 1, Len(t) - 1)
  ELSE AsSeq([i \in 1..Len(t) |-> WithoutTotal(t[i], rank - 1)])

RECURSIVE AllFinite(_, _)
AllFinite(t, rank) ==
  IF rank = 0 THEN IsFinite(t)
  ELSE \A i \in 1..Len(t) : AllFinite(t[i], rank - 1)

\* The number of axes of a data variable of the summary_metrics call.
SummaryRank ==
  (IF call.a.aggregate_geos THEN 0 ELSE 1)
  + (IF call.a.aggregate_times THEN 0 ELSE 1) + 1

\* The per-channel incremental outcome of the aggregate call.
PerChannelOutcome ==
  IncrementalOutcome(mmm, AggregateIncrementalOutcomeArgs(mmm, call.a))

AggregateReturned ==
  call.op = "compute_incremental_outcome_aggregate" /\ res.err = "none"

SummaryReturned == call.op = "summary_metrics" /\ res.err = "none"

Distributions == {"prior", "posterior"}

\* C18: compute_incremental_outcome_aggregate returns the per-channel
\* incremental outcome with exactly one more, last channel entry, in every
\* cell the sum of the per-channel entries; in the dataset of
\* summary_metrics effectiveness and mroi are NaN at 'All Channels', and
\* incremental_outcome and pct_of_contribution are there the sums.
C18_AllChannels ==
  /\ AggregateReturned =>
       /\ Len(res.shape) = Len(PerChannelOutcome.shape)
       /\ \A i \in 1..Len(res.shape) :
            res.shape[i] = PerChannelOutcome.shape[i]
                           + (IF i = Len(res.shape) THEN 1 ELSE 0)
       /\ WithoutTotal(res.val, Len(res.shape)) = PerChannelOutcome.val
       /\ TotalIsSum(res.val, Len(res.shape))
  /\ SummaryReturned =>
       \A d \in Distributions :
         /\ "effectiveness" \in DOMAIN res.data =>
              TotalIsNaN(res.data.effectiveness[d], SummaryRank)
         /\ "mroi" \in DOMAIN res.data =>
              TotalIsNaN(res.data.mroi[d], SummaryRank)
         /\ TotalIsSum(res.data.incremental_outcome[d], SummaryRank)
         /\ TotalIsSum(res.data.pct_of_contribution[d], SummaryRank)

\* A summary per geo with three channels and 'All Channels', whose
\* effectiveness and mroi are numbers at the channels.
C18_Witness ==
  /\ SummaryReturned
  /\ ~call.a.aggregate_geos
  /\ "mroi" \in DOMAIN res.data
  /\ Len(res.data.mroi.posterior[1]) >= 2
  /\ IsFinite(res.data.mroi.posterior[1][1])
  /\ IsFinite(res.data.effectiveness.posterior[1][1])
  /\ res.data.incremental_outcome.posterior[1][1] # Zero
  /\ AllFinite(res.data.pct_of_contribution.posterior, SummaryRank)

\* ---------------------------------------------------------------------
\* The derived metrics and the time axis.

DerivedMetrics == {"roi", "mroi", "cpik", "effectiveness"}

ProfitabilityOps == {"roi", "marginal_roi", "cpik"}

\* The axes of a result without a time axis: the draws, the geos unless
\* aggregated, and the channels.
TimeAggregatedRank == IF call.a.aggregate_geos THEN 2 ELSE 3

\* The shape of the per-draw incremental outcome of the paid channels,
\* summed over the times of the call.
TimeAggregatedShape ==
  IncrementalOutcome(mmm,
    [IncrementalOutcomeDefaults EXCEPT
       !.use_posterior = call.a.use_posterior,
       !.use_kpi = IF call.op = "cpik" THEN TRUE ELSE call.a.use_kpi,
       !.include_non_paid_channels = FALSE,
       !.selected_times = call.a.selected_times,
       !.aggregate_geos = call.a.aggregate_geos,
       !.aggregate_times = TRUE,
       !.batch_size = call.a.batch_size]).shape

OptimalFreqReturned == call.op = "optimal_freq" /\ res.err = "none"

\* The impressions of the model's reach and frequency channels.
HistoricalImpressions ==
  AsSeq([g \in 1..mmm.n_geos |-> AsSeq([t \in 1..mmm.n_media_times |->
    AsSeq([c \in 1..mmm.n_rf_channels |->
      RMul(Get(mmm.reach)[g][t][c], Get(mmm.frequency)[g][t][c])])])])

\* The reach and the frequency at the grid frequency f:
\* historical_reach * historical_frequency / f and f.
DataAtFrequency(f) ==
  [EmptyData EXCEPT
     !.reach = Some(Map3(HistoricalImpressions, LAMBDA v : RDiv(v, f))),
     !.frequency = Some(Map3(HistoricalImpressions, LAMBDA v : f))]

\* The impressions of the data at the grid frequency f.
ImpressionsAtFrequency(f) ==
  AsSeq([g \in 1..mmm.n_geos |-> AsSeq([t \in 1..mmm.n_media_times |->
    AsSeq([c \in 1..mmm.n_rf_channels |->
      RMul(Get(DataAtFrequency(f).reach)[g][t][c],
           Get(DataAtFrequency(f).frequency)[g][t][c])])])])

\* The mean over the draws of the ROI of the RF channels at the grid
\* frequency f.
MeanRoiAtFrequency(f) ==
  LastK(TMean(Roi(mmm, [RoiDefaults EXCEPT
                          !.new_data = Some(DataAtFrequency(f)),
                          !.use_posterior = call.a.use_posterior,
                          !.selected_geos = call.a.selected_geos,
                          !.selected_times = call.a.selected_times,
                          !.use_kpi = call.a.use_kpi]).val, 1),
        mmm.n_rf_channels)

\* i is the first grid index whose mean ROI of channel c is the greatest.
FirstMaximum(i, c) ==
  /\ \A j \in 1..Len(res.frequency) :
       RLeq(MeanRoiAtFrequency(res.frequency[j])[c],
            MeanRoiAtFrequency(res.frequency[i])[c])
  /\ \A j \in 1..(i - 1) :
       RLt(MeanRoiAtFrequency(res.frequency[j])[c],
           MeanRoiAtFrequency(res.frequency[i])[c])

\* C20: optimal_freq selects for each reach and frequency channel the grid
\* frequency whose mean ROI over the draws of the chosen distribution is
\* the greatest of the grid, the first in grid order among equals; the ROI
\* at the grid frequency f is that of the reach historical_reach *
\* historical_frequency / f at the frequency f, the impressions unchanged.
C20_OptimalFrequency ==
  OptimalFreqReturned =>
    /\ ~IsNone(call.a.freq_grid) => res.frequency = Get(call.a.freq_grid)
    /\ Len(res.optimal_frequency) = mmm.n_rf_channels
    /\ \A i \in 1..Len(res.frequency) :
         /\ res.roi[i] = MeanRoiAtFrequency(res.frequency[i])
         /\ ImpressionsAtFrequency(res.frequency[i]) = HistoricalImpressions
    /\ \A c \in 1..mmm.n_rf_channels :
         \E i \in 1..Len(res.frequency) :
           /\ res.optimal_frequency[c] = res.frequency[i]
           /\ FirstMaximum(i, c)

\* Two different grid frequencies have the greatest mean ROI, and the
\* first of them is the optimal frequency.
C20_Witness ==
  /\ OptimalFreqReturned
  /\ ~IsNone(call.a.freq_grid)
  /\ \E i, j \in 1..Len(res.frequency) :
       /\ i < j
       /\ res.frequency[i] # res.frequency[j]
       /\ res.roi[i][1] = res.roi[j][1]
       /\ \A k \in 1..Len(res.frequency) :
            RLeq(res.roi[k][1], res.roi[i][1])
       /\ \A k \in 1..(i - 1) : RLt(res.roi[k][1], res.roi[i][1])
       /\ res.optimal_frequency[1] = res.frequency[i]

\* ---------------------------------------------------------------------
\* The default frequency grid.

\* The greatest frequency of the model's reach and frequency channels.
MaxObservedFrequency == RMaxSeq(Flatten(Flatten(Get(mmm.frequency))))

RECURSIVE TenthsFrom(_, _)
\* 1.0, 1.1, 1.2, ... below the frequency max, from the k-th tenth on.
TenthsFrom(k, max) ==
  IF RLt(Rat(10 + k, 10), max)
  THEN <<Rat(10 + k, 10)>> \o TenthsFrom(k + 1, max)
  ELSE <<>>

\* optimal_freq was called without a grid on a model with a reach and
\* frequency channel, the draws and the data the analysis asks for.
DefaultGridCall ==
  /\ call.op = "optimal_freq"
  /\ IsNone(call.a.freq_grid)
  /\ mmm.n_rf_channels > 0
  /\ DistType(call.a.use_posterior) \in mmm.groups
  /\ ~CheckRevenueDataExistsRaises(mmm, call.a.use_kpi)

\* C21: without freq_grid optimal_freq searches the frequencies 1.0, 1.1,
\* ... up to the greatest observed frequency, and with a reach and
\* frequency channel and the draws it returns an optimal frequency for
\* every reach and frequency channel.
C21_DefaultGrid ==
  DefaultGridCall =>
    /\ res.err = "none"
    /\ res.frequency = TenthsFrom(0, MaxObservedFrequency)
    /\ Len(res.optimal_frequency) = mmm.n_rf_channels

(***************************************************************************)
(* The transformers called on their own.  A tensor with batch axes is held *)
(* as its batch shape and the (geo, time, channel) tensor of each batch    *)
(* element; alpha, ec and slope as their batch shape and the values of     *)
(* each batch element, one per channel.                                    *)
(***************************************************************************)
MaxTimes == 3

\* The greatest max_lag of the calls.
MaxLag == 2

TransformFailed(e) == [err |-> e, val |-> <<>>, shape |-> <<>>]

\* The first check that fails: the constructor checks n_times_output and
\* max_lag, forward checks the tensors.
AdstockError(media, alpha, max_lag, n_times_output) ==
  IF n_times_output <= 0 THEN "n_times_output_not_positive"
  ELSE IF max_lag < 0 THEN "max_lag_negative"
  ELSE IF n_times_output > NTime(media.val[1])
  THEN "n_times_output_exceeds"
  ELSE IF media.batch # <<>> /\ media.batch # alpha.batch
  THEN "batch_dims"
  ELSE IF NChan(media.val[1]) # Len(alpha.val[1]) THEN "channels"
  ELSE "none"

\* The batch element of media that goes with the element b of alpha.
BatchElement(media, b) ==
  IF media.batch = <<>> THEN media.val[1] ELSE media.val[b]

\* The forward of a transformer that keeps only its newest weight.
AdstockForwardNoCarryover(media, alpha, max_lag, n_times_output) ==
  IF AdstockError(media, alpha, max_lag, n_times_output) # "none"
  THEN TransformFailed(AdstockError(media, alpha, max_lag, n_times_output))
  ELSE [err |-> "none",
        val |-> AsSeq([b \in 1..Len(alpha.val) |->
                  Adstock(BatchElement(media, b), alpha.val[b], 0,
                          n_times_output)]),
        shape |-> alpha.batch \o
                  <<NGeo(media.val[1]), n_times_output, Len(alpha.val[1])>>]

\* A forward that returns the first n_times_output steps, not the last.
AdstockForwardFirstSteps(media, alpha, max_lag, n_times_output) ==
  IF AdstockError(media, alpha, max_lag, n_times_output) # "none"
  THEN TransformFailed(AdstockError(media, alpha, max_lag, n_times_output))
  ELSE [err |-> "none",
        val |-> AsSeq([b \in 1..Len(alpha.val) |->
                  AsSeq([g \in 1..NGeo(media.val[1]) |->
                    SubSeq(Adstock(BatchElement(media, b), alpha.val[b],
                                   max_lag, NTime(media.val[1]))[g],
                           1, n_times_output)])]),
        shape |-> alpha.batch \o
                  <<NGeo(media.val[1]), n_times_output, Len(alpha.val[1])>>]

\* The error of a forward that does not compare n_times_output with the
\* input length.
AdstockErrorUnchecked(media, alpha, max_lag, n_times_output) ==
  IF AdstockError(media, alpha, max_lag, n_times_output)
       = "n_times_output_exceeds"
  THEN AdstockError(media, alpha, max_lag, NTime(media.val[1]))
  ELSE AdstockError(media, alpha, max_lag, n_times_output)

\* A forward that does not compare n_times_output with the input length.
AdstockForwardUnchecked(media, alpha, max_lag, n_times_output) ==
  IF AdstockErrorUnchecked(media, alpha, max_lag, n_times_output) # "none"
  THEN TransformFailed(
         AdstockErrorUnchecked(media, alpha, max_lag, n_times_output))
  ELSE [err |-> "none",
        val |-> AsSeq([b \in 1..Len(alpha.val) |->
                  Adstock(BatchElement(media, b), alpha.val[b], max_lag,
                          n_times_output)]),
        shape |-> alpha.batch \o
                  <<NGeo(media.val[1]), n_times_output, Len(alpha.val[1])>>]

\* AdstockTransformer(alpha, max_lag, n_times_output).forward(media).
AdstockForward(media, alpha, max_lag, n_times_output) ==
  IF AdstockError(media, alpha, max_lag, n_times_output) # "none"
  THEN TransformFailed(AdstockError(media, alpha, max_lag, n_times_output))
  ELSE [err |-> "none",
        val |-> AsSeq([b \in 1..Len(alpha.val) |->
                  Adstock(BatchElement(media, b), alpha.val[b], max_lag,
                          n_times_output)]),
        shape |-> alpha.batch \o
                  <<NGeo(media.val[1]), n_times_output, Len(alpha.val[1])>>]

\* A hill that raises the media alone to the slope.
HillForwardUnscaled(media, ec, slope) ==
  IF Len(ec) # Len(slope) THEN TransformFailed("slope_ec_dims")
  ELSE IF NChan(media) # Len(ec) THEN TransformFailed("channels")
  ELSE [err |-> "none",
        val |-> Map3(media, LAMBDA x : HillRatio(RPow(x, slope[1]), ec[1])),
        shape |-> Shape3(media)]

\* HillTransformer(ec, slope).forward(media), without batch axes.
HillForward(media, ec, slope) ==
  IF Len(ec) # Len(slope) THEN TransformFailed("slope_ec_dims")
  ELSE IF NChan(media) # Len(ec) THEN TransformFailed("channels")
  ELSE [err |-> "none", val |-> Hill(media, ec, slope),
        shape |-> Shape3(media)]

\* The media of the calls: all zero, all one, or different everywhere.
MediaKinds == {"zeros", "ones", "ramp"}

MediaValue(kind, b, g, t, c) ==
  IF kind = "zeros" THEN Zero
  ELSE IF kind = "ones" THEN One
  ELSE R((b + g + 2 * t + c) % 4)

MediaTensor(kind, b, ng, nt, nc) ==
  AsSeq([g \in 1..ng |-> AsSeq([t \in 1..nt |->
    AsSeq([c \in 1..nc |-> MediaValue(kind, b, g, t, c)])])])

BatchSize(batch) == IF batch = <<>> THEN 1 ELSE batch[1]

BatchedMedia(kind, batch, ng, nt, nc) ==
  [batch |-> batch,
   val |-> AsSeq([b \in 1..BatchSize(batch) |->
             MediaTensor(kind, b, ng, nt, nc)])]

AlphaValues == {Zero, Rat(1, 2), Rat(1, 3), Rat(9, 10)}

AlphaLists ==
  {<<a>> : a \in AlphaValues} \cup {<<a, a>> : a \in AlphaValues}
  \cup {<<Rat(1, 2), Rat(1, 3)>>}

BatchedAlpha(alpha, batch) ==
  [batch |-> batch, val |-> AsSeq([b \in 1..BatchSize(batch) |-> alpha])]

\* The batch shapes of media and alpha: media without batch axes, equal
\* shapes, and different shapes.
BatchShapes ==
  {<<<<>>, <<2>>>>, <<<<1>>, <<1>>>>, <<<<2>>, <<2>>>>, <<<<1>>, <<2>>>>}

AdstockCalls ==
  {[media |-> BatchedMedia(kind, bs[1], ng, nt, nc),
    alpha |-> BatchedAlpha(alpha, bs[2]),
    max_lag |-> max_lag, n_times_output |-> n_times_output] :
     kind \in MediaKinds, bs \in BatchShapes, ng \in 1..2,
     nt \in 1..MaxTimes, nc \in 1..2, alpha \in AlphaLists,
     max_lag \in (-1)..MaxLag, n_times_output \in 0..(MaxTimes + 1)}

HillCalls ==
  {[media |-> MediaTensor(kind, b, ng, 2, nc), ec |-> ec, slope |-> slope] :
     kind \in MediaKinds, b \in 1..2, ng \in 1..2, nc \in 1..2,
     ec \in {<<One>>, <<Rat(1, 2)>>, <<R(2), One>>},
     slope \in {<<0>>, <<1>>, <<2>>, <<1, 0>>, <<2, 0>>, <<2, 1>>}}

\* The model of the scenario: 2 geos, 4 times, one media channel that is
\* not rescaled, media 1 in the first period of the first geo, max_lag 1.
ScenarioModel ==
  [MakeModel([fams |-> {"media"}, n_geos |-> 2, n_times |-> 4, n_lag |-> 0,
              kpi_type |-> "revenue", has_rpk |-> FALSE, groups |-> {},
              n_draws |-> 1])
     EXCEPT !.media = Some(<<<<<<One>>, <<Zero>>, <<Zero>>, <<Zero>>>>,
                             <<<<Zero>>, <<Zero>>, <<Zero>>, <<Zero>>>>>>),
            !.media_scale = One]

\* alpha 0.5, ec 1, slope 1, beta 2, no intercept and no control effect.
ScenarioDraw ==
  [Draw(1, 0, 2, 4) EXCEPT
     !.alpha_m = <<Rat(1, 2)>>, !.ec_m = <<One>>, !.slope_m = <<1>>,
     !.beta_gm = <<<<R(2)>>, <<R(2)>>>>,
     !.mu_t = <<Zero, Zero, Zero, Zero>>, !.tau_g = <<Zero, Zero>>,
     !.gamma_gc = <<<<Zero>>, <<Zero>>>>]

InitTransform ==
  /\ mmm = ScenarioModel
  /\ call = NoCall
  /\ res = NoResult

\* Meridian.sample_posterior, the draw being that of the scenario.
ScenarioSamplePosterior ==
  /\ call = NoCall
  /\ "posterior" \notin mmm.groups
  /\ mmm' = [mmm EXCEPT !.groups = @ \cup {"posterior"},
                        !.posterior = <<ScenarioDraw>>]
  /\ UNCHANGED <<call, res>>

ScenarioCalls ==
  {[ExpectedOutcomeDefaults EXCEPT
      !.aggregate_geos = ag, !.aggregate_times = at,
      !.inverse_transform_outcome = inv, !.use_kpi = uk] :
     ag \in BOOLEAN, at \in BOOLEAN, inv \in BOOLEAN, uk \in BOOLEAN}

ScenarioExpectedOutcome ==
  /\ call = NoCall
  /\ \E a \in ScenarioCalls :
       /\ call' = [op |-> "expected_outcome", a |-> a]
       /\ res' = ExpectedOutcome(mmm, a)
  /\ UNCHANGED mmm

CallAdstock ==
  /\ call = NoCall
  /\ \E a \in AdstockCalls :
       /\ call' = [op |-> "adstock", a |-> a]
       /\ res' = AdstockForward(a.media, a.alpha, a.max_lag,
                                a.n_times_output)
  /\ UNCHANGED mmm

CallHill ==
  /\ call = NoCall
  /\ \E a \in HillCalls :
       /\ call' = [op |-> "hill", a |-> a]
       /\ res' = HillForward(a.media, a.ec, a.slope)
  /\ UNCHANGED mmm

NextTransform ==
  \/ ScenarioSamplePosterior
  \/ ScenarioExpectedOutcome
  \/ CallAdstock
  \/ CallHill

SpecTransform == InitTransform /\ [][NextTransform]_vars

\* ---------------------------------------------------------------------
\* Adstock as a weighted sum of the lags.

AdstockReturned == call.op = "adstock" /\ res.err = "none"

\* The series of the geo g and the channel c of a tensor.
SeriesOf(media, g, c) == AsSeq([t \in 1..NTime(media) |-> media[g][t][c]])

\* The sum over the lags 0..max_lag that fall inside the series s of
\* alpha^lag times the step t - lag of s.
LaggedSum(s, alpha, max_lag, t) ==
  RSum(AsSeq([l \in 1..(max_lag + 1) |->
     IF t - (l - 1) >= 1 THEN RMul(RPow(alpha, l - 1), s[t - (l - 1)])
     ELSE Zero]))

\* The sum of alpha^lag over the lags 0..max_lag that fall inside a series
\* at its step t.
InSeriesWeight(alpha, max_lag, t) ==
  RSum(AsSeq([l \in 1..(max_lag + 1) |->
     IF t - (l - 1) >= 1 THEN RPow(alpha, l - 1) ELSE Zero]))

\* The sum of alpha^lag over the lags of the whole window, the lags
\* 0..max_lag that fall inside a series of n steps at its last step.
WindowWeight(alpha, max_lag, n) == InSeriesWeight(alpha, max_lag, n)

\* Every step of the returned tensor is the lagged sum of the input at
\* that step over the weight `Weight` of the alpha, the max_lag, the step
\* and the length of the series.
AdstockIsLaggedSumOver(Weight(_, _, _, _)) ==
  AdstockReturned =>
    \A b \in 1..Len(res.val) :
      \A g \in 1..Len(res.val[b]) :
        \A k \in 1..call.a.n_times_output :
          \A c \in 1..Len(call.a.alpha.val[b]) :
            LET media == BatchElement(call.a.media, b)
                t == NTime(media) - call.a.n_times_output + k
            IN res.val[b][g][k][c] =
                 RDiv(LaggedSum(SeriesOf(media, g, c),
                                call.a.alpha.val[b][c], call.a.max_lag, t),
                      Weight(call.a.alpha.val[b][c], call.a.max_lag, t,
                             NTime(media)))

\* expected_outcome of the scenario on the modelled scale, by geo and time.
ScenarioReturned ==
  /\ call.op = "expected_outcome"
  /\ res.err = "none"
  /\ ~call.a.aggregate_geos
  /\ ~call.a.aggregate_times
  /\ ~call.a.inverse_transform_outcome

\* The adstocked media of the scenario.
ScenarioAdstock ==
  Adstock(Get(MediaScaled(mmm)), mmm.posterior[1].alpha_m, mmm.max_lag,
          mmm.n_times)

\* The scenario: the adstocked media of the first geo in its first two
\* periods, the expected outcome of its first period, and that of the
\* second geo.
ScenarioValues(first, second, outcome) ==
  ScenarioReturned =>
    /\ ScenarioAdstock[1][1][1] = first
    /\ ScenarioAdstock[1][2][1] = second
    /\ res.val[1][1][1] = outcome
    /\ \A t \in 1..mmm.n_times : res.val[1][2][t] = Zero

ChannelUnchanged(c) ==
  \A b \in 1..Len(res.val) :
    \A g \in 1..Len(res.val[b]) :
      \A k \in 1..call.a.n_times_output :
        res.val[b][g][k][c] =
          BatchElement(call.a.media, b)
            [g][NTime(call.a.media.val[1]) - call.a.n_times_output + k][c]

\* Every entry of every batch element of the tensor is 0.
AllZero(val) ==
  \A b \in 1..Len(val) : \A g \in 1..Len(val[b]) :
    \A t \in 1..Len(val[b][g]) : \A c \in 1..Len(val[b][g][t]) :
      val[b][g][t][c] = Zero

\* C23: with alpha = 0 or max_lag = 0 forward returns the last
\* n_times_output steps of its input unchanged, and for an all-zero media
\* it returns zeros whatever alpha and max_lag are.
C23_AdstockEdgeCases ==
  AdstockReturned =>
    /\ \A c \in 1..Len(call.a.alpha.val[1]) :
         (call.a.max_lag = 0
            \/ \A b \in 1..Len(call.a.alpha.val) :
                 call.a.alpha.val[b][c] = Zero)
         => ChannelUnchanged(c)
    /\ AllZero(call.a.media.val) => AllZero(res.val)

\* Alpha 0 with a lag window of three steps, on a media that differs from
\* step to step, the output shorter than the input.
C23_Witness ==
  /\ AdstockReturned
  /\ call.a.max_lag = 2
  /\ call.a.alpha.val[1] = <<Zero, Zero>>
  /\ call.a.n_times_output = 2
  /\ NTime(call.a.media.val[1]) = 3
  /\ call.a.media.val[1][1][2][1] # call.a.media.val[1][1][3][1]
  /\ res.val[1][1][1][1] # Zero

\* ---------------------------------------------------------------------
\* Adstock of a constant media, and alpha close to 1.

\* forward returned as many steps as its input has.
FullLengthReturned ==
  AdstockReturned /\ call.a.n_times_output = NTime(call.a.media.val[1])

AllOnes(val) ==
  \A b \in 1..Len(val) : \A g \in 1..Len(val[b]) :
    \A t \in 1..Len(val[b][g]) : \A c \in 1..Len(val[b][g][t]) :
      val[b][g][t][c] = One

\* (1 - alpha^min(max_lag + 1, t + 1)) / (1 - alpha^(max_lag + 1)) at the
\* 0-based step t.
OnesValue(alpha, max_lag, t) ==
  RDiv(RSub(One, RPow(alpha, Min2(max_lag + 1, t + 1))),
       RSub(One, RPow(alpha, max_lag + 1)))

\* The media all ones: every step of every channel with alpha in (0, 1)
\* has the value above, for the calls whose max_lag is in `lags`.
OnesFormula(lags) ==
  (FullLengthReturned /\ AllOnes(call.a.media.val)
     /\ call.a.max_lag \in lags) =>
    \A b \in 1..Len(res.val) : \A g \in 1..Len(res.val[b]) :
      \A k \in 1..Len(res.val[b][g]) :
        \A c \in 1..Len(res.val[b][g][k]) :
          call.a.alpha.val[b][c] # Zero =>
            res.val[b][g][k][c] =
              OnesValue(call.a.alpha.val[b][c], call.a.max_lag, k - 1)

RAbsDiff(a, b) == IF RLeq(a, b) THEN RSub(b, a) ELSE RSub(a, b)

\* cumsum(media) / T at the step k of the geo g and the channel c.
CumSumOverT(media, g, k, c) ==
  RDiv(RSum(AsSeq([t \in 1..k |-> media[g][t][c]])), R(NTime(media)))

\* With max_lag = T - 1 the output is within (1 - alpha) * T * max(media)
\* of cumsum(media) / T: it tends to it as alpha tends to 1.
CloseToCumSum ==
  (FullLengthReturned
     /\ call.a.max_lag = NTime(call.a.media.val[1]) - 1) =>
    \A b \in 1..Len(res.val) : \A g \in 1..Len(res.val[b]) :
      \A k \in 1..Len(res.val[b][g]) :
        \A c \in 1..Len(res.val[b][g][k]) :
          LET media == BatchElement(call.a.media, b)
          IN RLeq(RAbsDiff(res.val[b][g][k][c], CumSumOverT(media, g, k, c)),
                  RMul(RSub(One, call.a.alpha.val[b][c]),
                       RMul(R(NTime(media)),
                            RMaxSeq(Flatten(Flatten(media))))))

AdstockInvalid ==
  \/ call.a.n_times_output > NTime(call.a.media.val[1])
  \/ call.a.n_times_output <= 0
  \/ call.a.max_lag < 0
  \/ (call.a.media.batch # <<>>
       /\ call.a.media.batch # call.a.alpha.batch)
  \/ NChan(call.a.media.val[1]) # Len(call.a.alpha.val[1])

\* C25: forward fails without an output when n_times_output exceeds the
\* input length or is not positive, when max_lag is negative, and when
\* the batch axes or the channels of media and alpha differ; otherwise the
\* output has n_times_output steps and the geos and channels of the input.
C25_AdstockErrorsAndShape ==
  call.op = "adstock" =>
    IF AdstockInvalid
    THEN res.err # "none" /\ res.val = <<>>
    ELSE /\ res.err = "none"
         /\ res.shape = call.a.alpha.batch \o
                         <<NGeo(call.a.media.val[1]), call.a.n_times_output,
                           NChan(call.a.media.val[1])>>
         /\ \A b \in 1..Len(res.val) :
              /\ Len(res.val[b]) = NGeo(call.a.media.val[1])
              /\ \A g \in 1..Len(res.val[b]) :
                   /\ Len(res.val[b][g]) = call.a.n_times_output
                   /\ \A k \in 1..Len(res.val[b][g]) :
                        Len(res.val[b][g][k]) = NChan(call.a.media.val[1])

\* One output step more than the input has, everything else valid.
C25_Witness ==
  /\ call.op = "adstock"
  /\ call.a.n_times_output = NTime(call.a.media.val[1]) + 1
  /\ call.a.max_lag = 1
  /\ call.a.media.batch = call.a.alpha.batch
  /\ NChan(call.a.media.val[1]) = Len(call.a.alpha.val[1])
  /\ res.err = "n_times_output_exceeds"

\* ---------------------------------------------------------------------
\* The boundary values of hill.

HillReturned == call.op = "hill" /\ res.err = "none"

\* The cells of the media of a hill call.
HillCells ==
  {<<g, t, c>> : g \in 1..NGeo(call.a.media),
                 t \in 1..NTime(call.a.media),
                 c \in 1..NChan(call.a.media)}

HillInput(i) == call.a.media[i[1]][i[2]][i[3]]
HillOutput(i) == res.val[i[1]][i[2]][i[3]]

\* C26: hill maps 0 to 0 when ec and slope are positive, every positive
\* value to 1/2 when the slope is 0, x to x / (1 + x) when ec and slope are
\* both 1, and every value into [0, 1).
C26_HillBoundary ==
  HillReturned =>
    \A i \in HillCells :
      /\ (HillInput(i) = Zero /\ RLt(Zero, call.a.ec[i[3]])
            /\ call.a.slope[i[3]] > 0)
           => HillOutput(i) = Zero
      /\ (RLt(Zero, HillInput(i)) /\ call.a.slope[i[3]] = 0)
           => HillOutput(i) = Rat(1, 2)
      /\ (call.a.ec[i[3]] = One /\ call.a.slope[i[3]] = 1)
           => HillOutput(i) = RDiv(HillInput(i), RAdd(One, HillInput(i)))
      /\ RLeq(Zero, HillOutput(i))
      /\ RLt(HillOutput(i), One)

\* A call whose second channel has slope 0 and holds a positive value, and
\* whose first channel has slope 2, half saturation 2 and holds a 0.
C26_Witness ==
  /\ HillReturned
  /\ call.a.ec = <<R(2), One>>
  /\ call.a.slope = <<2, 0>>
  /\ \E i \in HillCells : i[3] = 2 /\ RLt(Zero, HillInput(i))
  /\ \E i \in HillCells : i[3] = 1 /\ HillInput(i) = Zero

\* ---------------------------------------------------------------------
\* The non-media treatments outside the selected media times.

\* An incremental_outcome call on a model with non-media treatments, on
\* the data of the model.
NonMediaScenarioCall ==
  /\ Computed("incremental_outcome")
  /\ IsNone(call.a.new_data)
  /\ ~IsNone(res.data_tensors.non_media_treatments)

\* non_media_selected_times of the call.
NonMediaSelectedTimes == LastK(res.media_selected_times, mmm.n_times)

\* The values of geo g at time t in the non-media treatments of scenario
\* 0 and of scenario 1.
NonMedia0(g, t) == Get(res.new0.non_media_treatments)[g][t]
NonMedia1(g, t) == Get(res.new1.non_media_treatments)[g][t]

\* The non-media channels of the result at geo g and time t, for draw i.
NonMediaOutcome(i, g, t) ==
  LastK(res.val[i][g][t], NChan(Get(res.data_tensors.non_media_treatments)))

\* C27: at every time that media_selected_times does not select, the
\* non-media treatments of scenario 0 are those of scenario 1, the
\* historical ones, and the non-media incremental outcome of that time is
\* zero; at the selected times scenario 0 holds the baseline.
C27_UnselectedTimesKeepTreatments ==
  NonMediaScenarioCall =>
    \A g \in 1..mmm.n_geos, t \in 1..mmm.n_times :
      /\ NonMedia1(g, t) = Get(res.data_tensors.non_media_treatments)[g][t]
      /\ NonMediaSelectedTimes[t] =>
           \A c \in 1..Len(NonMedia0(g, t)) :
             NonMedia0(g, t)[c]
               = BaselineForChannel(
                   Get(res.data_tensors.non_media_treatments),
                   IF IsNone(call.a.non_media_baseline_values)
                   THEN BaselineMin
                   ELSE Get(call.a.non_media_baseline_values)[c], c)
      /\ ~NonMediaSelectedTimes[t] =>
           /\ NonMedia0(g, t) = NonMedia1(g, t)
           /\ (ModeledScaleCall /\ res.scenario0_run) =>
                \A i \in 1..Len(res.val) :
                  \A c \in 1..Len(NonMediaOutcome(i, g, t)) :
                    NonMediaOutcome(i, g, t)[c] = Zero

\* The same without the times that are not selected.
C27_SelectedTimesHoldBaseline ==
  NonMediaScenarioCall =>
    \A g \in 1..mmm.n_geos, t \in 1..mmm.n_times :
      /\ NonMedia1(g, t) = Get(res.data_tensors.non_media_treatments)[g][t]
      /\ NonMediaSelectedTimes[t] =>
           \A c \in 1..Len(NonMedia0(g, t)) :
             NonMedia0(g, t)[c]
               = BaselineForChannel(
                   Get(res.data_tensors.non_media_treatments),
                   IF IsNone(call.a.non_media_baseline_values)
                   THEN BaselineMin
                   ELSE Get(call.a.non_media_baseline_values)[c], c)
      /\ ~NonMediaSelectedTimes[t] =>
           \A c \in 1..Len(NonMedia0(g, t)) : NonMedia0(g, t)[c] = Zero

\* ---------------------------------------------------------------------
\* The coordinates of the summary datasets.

\* The label of an entry of a selection.
ItemLabel(x) ==
  IF x.kind = "str" THEN x.s ELSE IF x.b THEN "True" ELSE "False"

\* xr_coords of summary_metrics and of baseline_summary_metrics: the geo
\* and time labels are the selections as they are given, the coordinates
\* of the model when nothing is selected; an aggregated axis has none.
XrCoords(m, a) ==
  [d \in (IF a.aggregate_geos THEN {} ELSE {"geo"})
          \cup (IF a.aggregate_times THEN {} ELSE {"time"}) |->
     IF d = "geo"
     THEN IF IsNone(a.selected_geos) THEN m.geo ELSE Get(a.selected_geos)
     ELSE IF IsNone(a.selected_times) THEN m.time
          ELSE AsSeq([i \in 1..Len(Get(a.selected_times)) |->
                  ItemLabel(Get(a.selected_times)[i])])]

\* The sizes of the geo and time axes of a tensor whose first axes they
\* are.
AxisSizes(a, t) ==
  [d \in (IF a.aggregate_geos THEN {} ELSE {"geo"})
          \cup (IF a.aggregate_times THEN {} ELSE {"time"}) |->
     IF d = "geo" \/ a.aggregate_geos THEN Len(t) ELSE Len(t[1])]

\* xr.Dataset(data_vars, coords): raises when an axis has another number
\* of labels than the data has rows along it.
XrDataset(data, sizes, coords) ==
  IF \E d \in DOMAIN coords : Len(coords[d]) # sizes[d]
  THEN DatasetFailed("conflicting_sizes")
  ELSE [err |-> "none", data |-> data, coords |-> coords]

\* summary_metrics with the coordinates of its dataset.
SummaryMetricsDataset(m, a) ==
  IF SummaryMetrics(m, a).err # "none" THEN SummaryMetrics(m, a)
  ELSE XrDataset(SummaryMetrics(m, a).data,
         AxisSizes(a, SummaryMetrics(m, a).data.incremental_outcome.posterior),
         XrCoords(m, a))

RECURSIVE ExpandLast(_, _)
\* tf.expand_dims(t, axis=-1)
ExpandLast(t, rank) ==
  IF rank = 0 THEN <<t>>
  ELSE AsSeq([i \in 1..Len(t) |-> ExpandLast(t[i], rank - 1)])

RECURSIVE SelChannel(_, _)
\* .sel(channel=...) on a channel axis of one label; rank counts the axes
\* before the channel axis.
SelChannel(t, rank) ==
  IF rank = 0 THEN t[1]
  ELSE AsSeq([i \in 1..Len(t) |-> SelChannel(t[i], rank - 1)])

ZerosLike(t) == IF IsNone(t) THEN None ELSE Some(ZeroTensor(Shape3(Get(t))))

\* The new_data of _calculate_baseline_expected_outcome: no execution, the
\* non-media treatments at their baseline, the historical controls.
BaselineNewData(m, baseline) ==
  [EmptyData EXCEPT
     !.media = ZerosLike(m.media),
     !.reach = ZerosLike(m.reach),
     !.organic_media = ZerosLike(m.organic_media),
     !.organic_reach = ZerosLike(m.organic_reach),
     !.non_media_treatments =
        IF IsNone(m.non_media_treatments) THEN None ELSE Some(baseline.val),
     !.controls = m.controls]

\* _calculate_baseline_expected_outcome
CalculateBaselineExpectedOutcome(m, non_media_baseline_values, a) ==
  IF ~IsNone(m.non_media_treatments)
     /\ ComputeNonMediaBaseline(Get(m.non_media_treatments),
                                non_media_baseline_values, None).err # "none"
  THEN DatasetFailed(
         ComputeNonMediaBaseline(Get(m.non_media_treatments),
                                 non_media_baseline_values, None).err)
  ELSE ExpectedOutcome(m,
         [a EXCEPT !.new_data =
            Some(BaselineNewData(m,
                   IF IsNone(m.non_media_treatments) THEN DatasetFailed("none")
                   ELSE ComputeNonMediaBaseline(Get(m.non_media_treatments),
                          non_media_baseline_values, None)))])

\* The arguments baseline_summary_metrics gives to expected_outcome.
BaselineOutcomeArgs(m, a, use_posterior) ==
  [ExpectedOutcomeDefaults EXCEPT
     !.use_posterior = use_posterior,
     !.use_kpi = IsNone(m.revenue_per_kpi),
     !.selected_geos = a.selected_geos,
     !.selected_times = a.selected_times,
     !.aggregate_geos = a.aggregate_geos,
     !.aggregate_times = a.aggregate_times,
     !.batch_size = a.batch_size]

\* baseline_outcome and pct_of_contribution from the expected outcomes
\* and the baseline expected outcomes, prior then posterior; rank counts
\* the axes after the draws, the added channel axis included.
BaselineVariables(expected, baseline, rank) ==
  [baseline_outcome |->
     [d \in {"prior", "posterior"} |->
        SelChannel(
          ByPriorAndPosterior(ExpandLast(baseline[1].val, rank),
                              ExpandLast(baseline[2].val, rank), rank)[d],
          rank - 1)],
   pct_of_contribution |->
     [d \in {"prior", "posterior"} |->
        SelChannel(
          ByPriorAndPosterior(
            PctOfContribution(ExpandLast(baseline[1].val, rank),
                              expected[1].val, rank),
            PctOfContribution(ExpandLast(baseline[2].val, rank),
                              expected[2].val, rank), rank)[d],
          rank - 1)]]

BaselineSummaryWith(m, a, expected, baseline) ==
  IF FirstError(<<expected[1].err, expected[2].err, baseline[1].err,
                  baseline[2].err>>) # "none"
  THEN DatasetFailed(FirstError(<<expected[1].err, expected[2].err,
                                  baseline[1].err, baseline[2].err>>))
  ELSE XrDataset(
         BaselineVariables(expected, baseline, Len(expected[1].shape)),
         AxisSizes(a, TMean(expected[2].val, Len(expected[2].shape) - 1)),
         XrCoords(m, a))

\* Analyzer.baseline_summary_metrics.
\* a: [selected_geos, selected_times, aggregate_geos, aggregate_times,
\*     non_media_baseline_values, batch_size]
BaselineSummaryMetrics(m, a) ==
  BaselineSummaryWith(m, a,
    <<ExpectedOutcome(m, BaselineOutcomeArgs(m, a, FALSE)),
      ExpectedOutcome(m, BaselineOutcomeArgs(m, a, TRUE))>>,
    <<CalculateBaselineExpectedOutcome(m, a.non_media_baseline_values,
        BaselineOutcomeArgs(m, a, FALSE)),
      CalculateBaselineExpectedOutcome(m, a.non_media_baseline_values,
        BaselineOutcomeArgs(m, a, TRUE))>>)

(***************************************************************************)
(* SpecLabels: the summary datasets of a model with two geos, for          *)
(* selections in and out of the order of the model and with repeated       *)
(* names.                                                                  *)
(***************************************************************************)
LabelModels ==
  {NewModel([fams |-> {"media"}, n_geos |-> 2, n_lag |-> 1,
             kpi_type |-> "revenue", has_rpk |-> FALSE], 1),
   NewModel([fams |-> {"rf", "non_media"}, n_geos |-> 2, n_lag |-> 0,
             kpi_type |-> "non_revenue", has_rpk |-> FALSE], 1)}

LabelGeoSelections ==
  {None, Some(<<"g1">>), Some(<<"g2">>), Some(<<"g1", "g2">>),
   Some(<<"g2", "g1">>), Some(<<"g2", "g2">>)}

LabelTimeSelections ==
  {None, Some(StrList(<<"t2">>)), Some(StrList(<<"t1", "t2">>)),
   Some(StrList(<<"t2", "t1">>)), Some(StrList(<<"t1", "t1">>))}

LabelCalls(m) ==
  {[SummaryMetricsDefaults EXCEPT
      !.use_kpi = IsNone(m.revenue_per_kpi),
      !.include_non_paid_channels = TRUE,
      !.selected_geos = sg, !.selected_times = st,
      !.aggregate_geos = ag, !.aggregate_times = at] :
     sg \in LabelGeoSelections, st \in LabelTimeSelections,
     ag \in BOOLEAN, at \in BOOLEAN}

InitLabels ==
  /\ mmm \in LabelModels
  /\ call = NoCall
  /\ res = NoResult

LabelSummaryMetrics ==
  /\ call = NoCall
  /\ \E a \in LabelCalls(mmm) :
       /\ call' = [op |-> "summary_metrics", a |-> a]
       /\ res' = SummaryMetricsDataset(mmm, a)
  /\ UNCHANGED mmm

LabelBaselineSummaryMetrics ==
  /\ call = NoCall
  /\ \E a \in LabelCalls(mmm) :
       /\ call' = [op |-> "baseline_summary_metrics", a |-> a]
       /\ res' = BaselineSummaryMetrics(mmm, a)
  /\ UNCHANGED mmm

NextLabels ==
  \/ SamplePrior
  \/ SamplePosterior
  \/ LabelSummaryMetrics
  \/ LabelBaselineSummaryMetrics

SpecLabels == InitLabels /\ [][NextLabels]_vars

\* ---------------------------------------------------------------------
\* The labels of the rows of the summary datasets.

LabelOps == {"summary_metrics", "baseline_summary_metrics"}

\* The operation the state records, called with arguments a.
LabelAgain(a) ==
  IF call.op = "summary_metrics" THEN SummaryMetricsDataset(mmm, a)
  ELSE BaselineSummaryMetrics(mmm, a)

\* The call with nothing selected returns: the model is fitted and the
\* other arguments are accepted.
LabelCallAccepted ==
  /\ call.op \in LabelOps
  /\ LabelAgain([call.a EXCEPT !.selected_geos = None,
                               !.selected_times = None]).err = "none"

\* Row i of the geo axis, row j of the time axis of a variable.
GeoRow(t, i) == t[i]
TimeRow(t, j) ==
  IF call.a.aggregate_geos THEN t[j]
  ELSE AsSeq([g \in 1..Len(t) |-> t[g][j]])

\* Every variable of the dataset ds holds, in row i of the geo axis, what
\* the dataset of the geo named l alone holds.
GeoRowHolds(ds, i, l) ==
  \A v \in DOMAIN ds.data : \A d \in DOMAIN ds.data[v] :
    GeoRow(ds.data[v][d], i)
      = GeoRow(LabelAgain([call.a EXCEPT !.selected_geos = Some(<<l>>)])
                 .data[v][d], 1)

TimeRowHolds(ds, j, l) ==
  \A v \in DOMAIN ds.data : \A d \in DOMAIN ds.data[v] :
    TimeRow(ds.data[v][d], j)
      = TimeRow(LabelAgain([call.a EXCEPT
                   !.selected_times = Some(StrList(<<l>>))]).data[v][d], 1)

\* C28: for every list of geo names and of time names of the model, in
\* any order and with repeated names, summary_metrics and
\* baseline_summary_metrics return a dataset in which the label of each
\* row of the geo axis (of the time axis) is the geo (the time) whose data
\* the row holds.
C28_LabelsMatchRows ==
  LabelCallAccepted =>
    /\ res.err = "none"
    /\ ~call.a.aggregate_geos =>
         \A i \in 1..Len(res.coords.geo) :
           GeoRowHolds(res, i, res.coords.geo[i])
    /\ ~call.a.aggregate_times =>
         \A j \in 1..Len(res.coords.time) :
           TimeRowHolds(res, j, res.coords.time[j])

\* A selection names each of its coordinates once and in the order of the
\* model.
InModelOrder(l, coords) ==
  IsNone(l)
  \/ \E mask \in [1..Len(coords) -> BOOLEAN] :
       Get(l) = SelectByMask(coords, AsSeq(mask))

\* The same for the selections that are in the order of the model and
\* name no coordinate twice.
C28_LabelsMatchRowsInOrder ==
  (/\ LabelCallAccepted
   /\ InModelOrder(call.a.selected_geos, mmm.geo)
   /\ InModelOrder(IF IsNone(call.a.selected_times) THEN None
                   ELSE Some(AsSeq([i \in 1..Len(Get(call.a.selected_times))
                               |-> Get(call.a.selected_times)[i].s])),
                   mmm.time)) =>
    /\ res.err = "none"
    /\ ~call.a.aggregate_geos =>
         \A i \in 1..Len(res.coords.geo) :
           GeoRowHolds(res, i, res.coords.geo[i])
    /\ ~call.a.aggregate_times =>
         \A j \in 1..Len(res.coords.time) :
           TimeRowHolds(res, j, res.coords.time[j])

\* ---------------------------------------------------------------------
\* Complete new data of another length.

\* The families of the model whose tensors incremental_outcome takes.
ModelTensors ==
  {f \in {"media", "reach", "frequency", "organic_media", "organic_reach",
          "organic_frequency", "non_media_treatments"} : ~IsNone(mmm[f])}

\* A mask of n booleans, or no selection.
MaskOfLength(l, n) == IsNone(l) \/ (IsBoolList(Get(l)) /\ Len(Get(l)) = n)

\* The call gives every tensor of the model and a revenue per KPI with n
\* time periods, and its selections are masks of n booleans.
CompleteNewData(n) ==
  /\ call.op = "incremental_outcome"
  /\ ~IsNone(call.a.new_data)
  /\ \A f \in ModelTensors :
       /\ ~IsNone(Get(call.a.new_data)[f])
       /\ NTime(Get(Get(call.a.new_data)[f])) = n
  /\ ~IsNone(Get(call.a.new_data).revenue_per_kpi)
  /\ Len(Get(Get(call.a.new_data).revenue_per_kpi)[1]) = n
  /\ MaskOfLength(call.a.selected_times, n)
  /\ MaskOfLength(call.a.media_selected_times, n)

HasNonPaidFamily ==
  ModelTensors \cap {"organic_media", "organic_reach",
                     "non_media_treatments"} # {}

\* C29: on a model with organic media, organic reach and frequency or
\* non-media treatments, incremental_outcome accepts new data that give
\* every tensor of the model with one number of time periods other than
\* the historical one, the selections being masks of that length.
C29_CompleteNewDataAccepted ==
  (/\ HasNonPaidFamily
   /\ CompleteNewData(mmm.n_media_times + 1)
   /\ ReachesValidation)
    => res.err = "none"

\* The same for the models that have paid channels only.
C29_CompleteNewDataPaidOnly ==
  (/\ ~HasNonPaidFamily
   /\ CompleteNewData(mmm.n_media_times + 1)
   /\ ReachesValidation)
    => res.err = "none"

\* Such a call is made on a model with paid channels only, with a mask
\* for the media times.
C29_PaidOnlyReached ==
  /\ ~HasNonPaidFamily
  /\ CompleteNewData(mmm.n_media_times + 1)
  /\ ReachesValidation
  /\ ~IsNone(call.a.media_selected_times)

\* The error of the call on the models with a non-paid family.
C29_CompleteNewDataRejected ==
  (/\ HasNonPaidFamily
   /\ CompleteNewData(mmm.n_media_times + 1)
   /\ ReachesValidation)
    => res.err = "shape"

\* ---------------------------------------------------------------------
\* The axes the filter takes for the geos and the times.

\* A call of the filter with flexible_time_dim=False on a tensor whose geo
\* and time axes have the lengths of the model's.
InferredAxesCall ==
  /\ call.op = "filter"
  /\ ~call.a.flexible_time_dim
  /\ call.a.tail[1] = mmm.n_geos
  /\ call.a.tail[2] = mmm.n_times
  /\ res.err = "none"

\* The tensor of the call, filtered and summed over the axes that are its
\* geo and time axes.
OverTrueAxes ==
  FilterAndAggregate(ShapedTensor(<<2>> \o call.a.tail, 0),
    <<2>> \o call.a.tail,
    FilterDims(<<2>> \o call.a.tail, call.a.carries_channel),
    AsSeq([g \in 1..mmm.n_geos |-> TRUE]),
    AsSeq([t \in 1..mmm.n_times |-> TRUE]),
    call.a.aggregate_geos, call.a.aggregate_times)

\* C30: with flexible_time_dim=False the filter takes a (geo, time) tensor
\* for one without a channel axis and a (geo, time, channel) tensor for
\* one with it, and sums over the geo and time axes of the tensor,
\* whatever the numbers of geos, times, channels and draws are.
C30_TrueAxes ==
  InferredAxesCall =>
    /\ res.has_media_dim = call.a.carries_channel
    /\ res.shape = OverTrueAxes.shape
    /\ res.val = OverTrueAxes.val

\* The same for the tensors that have a channel axis.
C30_TrueAxesWithChannel ==
  (InferredAxesCall /\ call.a.carries_channel) =>
    /\ res.has_media_dim
    /\ res.shape = OverTrueAxes.shape
    /\ res.val = OverTrueAxes.val

\* A tensor with a channel axis is summed over its geos and times.
C30_WithChannelReached ==
  /\ InferredAxesCall
  /\ call.a.carries_channel
  /\ call.a.aggregate_geos
  /\ res.shape = <<2, call.a.tail[3]>>

====
